---- MODULE Spec2Model ----
(***************************************************************************)
(* slop-streamer: the OpenAI-compatible "responses" stream adapter.        *)
(*                                                                         *)
(* OAICompatResponsesStream wraps an sseer::EventStream (the event framer) *)
(* and, pull by pull, turns framed records into owned StreamEvent values,  *)
(* framer errors into typed errors, and the "[DONE]" record or the end of  *)
(* the input into the end of the stream.                                   *)
(***************************************************************************)
EXTENDS Integers, Sequences, FiniteSets, TLC

VARIABLES
    state,          \* OAICompatResponsesStream.state: Active{stream} | Terminated
    out,            \* every Poll::Ready(..) handed to the consumer, in order
    last,           \* the last poll: what the framer yielded and what was returned
    decoder_input,  \* every payload handed to serde_json::from_str, in order
    source,         \* the framer the adapter was constructed over
    request,        \* the caller's request items, by address
    wrapper_ref,    \* the last reference as_wrapper_ref returned
    written         \* what serializing through that reference wrote

vars == <<state, out, last, decoder_input, source, request, wrapper_ref, written>>

\* ------------------------------------------------------------------ bounds

MaxLines == 4
MaxRecords == 4
MaxIdlePulls == 2
MaxEvents == 2

\* ------------------------------------------------------- JSON wire values

NotJson == [j |-> "invalid"]
JStr(s, esc) == [j |-> "string", s |-> s, esc |-> esc]
\* A number as written on the wire: its sign, whether it has a fraction or an
\* exponent, and its integer magnitude in 16-bit digits, most significant first.
Digit == 65536
RECURSIVE Digits(_)
Digits(n) == IF n < Digit THEN <<n>> ELSE Append(Digits(n \div Digit), n % Digit)
JNumber(neg, frac, digits) ==
    [j |-> "number", neg |-> neg, frac |-> frac, digits |-> digits]
JNum(n) == JNumber(n < 0, FALSE, Digits(IF n < 0 THEN -n ELSE n))
JNull == [j |-> "null"]
JObj(f) == [j |-> "object", f |-> f]
JArr(a) == [j |-> "array", a |-> a]

\* One record payload: its text, and what the text is as JSON.
Payload(text, json) == [text |-> text, json |-> json]

\* ------------------------------------------------- the wire schema (serde)

TyU32 == [t |-> "u32"]
TyU64 == [t |-> "u64"]
\* The 16-bit digits an unsigned integer of each width holds.
U32Digits == 2
U64Digits == 4
Width(ty) == IF ty.t = "u32" THEN U32Digits ELSE U64Digits
TyF64 == [t |-> "f64"]
TyT == [t |-> "T"]
TyStr == [t |-> "Str"]
TyUnitEnum(name) == [t |-> "unit_enum", name |-> name]
TyStruct(name) == [t |-> "struct", name |-> name]
TyTagged(name) == [t |-> "tagged", name |-> name]
TyOption(of) == [t |-> "option", of |-> of]
TyVec(of) == [t |-> "vec", of |-> of]

\* A struct field: `req` is FALSE for a field serde fills in when it is absent.
F(name, ty) == [name |-> name, ty |-> ty, req |-> TRUE, flatten |-> FALSE]
FOpt(name, ty) == [name |-> name, ty |-> ty, req |-> FALSE, flatten |-> FALSE]
\* #[serde(flatten)]: the field is read from the enclosing object itself.
FFlat(name, ty) == [name |-> name, ty |-> ty, req |-> TRUE, flatten |-> TRUE]

ResponseStatus == {"in_progress", "completed"}
ItemStatus == {"in_progress", "completed"}

UnitEnum(name) ==
    CASE name = "ResponseStatus" -> ResponseStatus
      [] name = "ItemStatus" -> ItemStatus

\* tag |-> <<variant, payload struct>>, in declaration order
StreamEvent ==
    << <<"response.created", "ResponseCreated", "ResponseCreatedData">>,
       <<"response.in_progress", "ResponseInProgress", "ResponseInProgressData">>,
       <<"response.output_item.added", "ResponseOutputItemAdded", "OutputItemAddedData">>,
       <<"response.content_part.added", "ResponseContentPartAdded", "ContentPartAddedData">>,
       <<"response.output_text.delta", "ResponseOutputTextDelta", "OutputTextDeltaData">>,
       <<"response.output_text.annotation.added", "ResponseOutputTextAnnotationAdded", "AnnotationAddedData">>,
       <<"response.output_text.done", "ResponseOutputTextDone", "OutputTextDoneData">>,
       <<"response.content_part.done", "ResponseContentPartDone", "ContentPartDoneData">>,
       <<"response.output_item.done", "ResponseOutputItemDone", "OutputItemDoneData">>,
       <<"response.function_call_arguments.delta", "ResponseFunctionCallArgumentsDelta", "FunctionCallArgumentsDeltaData">>,
       <<"response.function_call_arguments.done", "ResponseFunctionCallArgumentsDone", "FunctionCallArgumentsDoneData">>,
       <<"response.reasoning_text.delta", "ResponseReasoningTextDelta", "ReasoningTextDeltaData">>,
       <<"response.reasoning_text.done", "ResponseReasoningTextDone", "ReasoningTextDoneData">>,
       <<"response.reasoning_summary_part.added", "ResponseReasoningSummaryPartAdded", "ReasoningSummaryPartAddedData">>,
       <<"response.reasoning_summary_text.delta", "ResponseReasoningSummaryTextDelta", "ReasoningSummaryTextDeltaData">>,
       <<"response.reasoning_summary_text.done", "ResponseReasoningSummaryTextDone", "ReasoningSummaryTextDoneData">>,
       <<"response.reasoning_summary_part.done", "ResponseReasoningSummaryPartDone", "ReasoningSummaryPartDoneData">>,
       <<"response.completed", "ResponseCompleted", "ResponseCompletedData">> >>

OutputItem ==
    << <<"message", "Message", "MessageItem">>,
       <<"reasoning", "Reasoning", "ReasoningItem">>,
       <<"function_call", "FunctionCall", "FunctionCallItem">> >>

ContentPart ==
    << <<"output_text", "OutputText", "OutputTextPart">>,
       <<"reasoning_text", "ReasoningText", "ReasoningTextPart">>,
       <<"summary_text", "SummaryText", "SummaryTextPart">> >>

SummaryContent == << <<"summary_text", "SummaryText", "SummaryTextPart">> >>

Annotation == << <<"url_citation", "UrlCitation", "UrlCitation">> >>

TaggedEnum(name) ==
    CASE name = "StreamEvent" -> StreamEvent
      [] name = "OutputItem" -> OutputItem
      [] name = "ContentPart" -> ContentPart
      [] name = "SummaryContent" -> SummaryContent
      [] name = "Annotation" -> Annotation

Fields(name) ==
    CASE name = "ResponseCreatedData" ->
            << F("response", TyStruct("ResponseMetadata")), F("sequence_number", TyU64) >>
      [] name = "ResponseInProgressData" ->
            << F("sequence_number", TyU64) >>
      [] name = "ResponseCompletedData" ->
            << F("response", TyStruct("ResponseMetadata")), F("sequence_number", TyU64) >>
      [] name = "ResponseMetadata" ->
            << F("id", TyStr), F("status", TyUnitEnum("ResponseStatus")),
               FOpt("usage", TyOption(TyStruct("UsageInfo"))) >>
      [] name = "UsageInfo" ->
            << F("input_tokens", TyU64), F("output_tokens", TyU64),
               F("total_tokens", TyU64), FOpt("cost", TyOption(TyF64)) >>
      [] name = "OutputItemAddedData" ->
            << F("output_index", TyU32), F("item", TyTagged("OutputItem")),
               F("sequence_number", TyU64) >>
      [] name = "OutputItemDoneData" ->
            << F("output_index", TyU32), F("item", TyTagged("OutputItem")),
               F("sequence_number", TyU64) >>
      [] name = "MessageItem" ->
            << F("id", TyT), F("status", TyUnitEnum("ItemStatus")),
               FOpt("content", TyVec(TyTagged("ContentPart"))) >>
      [] name = "ReasoningItem" ->
            << F("id", TyT), FOpt("summary", TyVec(TyStruct("SummaryPart"))),
               FOpt("encrypted_content", TyOption(TyT)) >>
      [] name = "FunctionCallItem" ->
            << F("call_id", TyT), F("name", TyT), F("arguments", TyT),
               F("status", TyUnitEnum("ItemStatus")) >>
      [] name = "ContentPartAddedData" ->
            << F("item_id", TyT), F("output_index", TyU32), F("content_index", TyU32),
               F("part", TyTagged("ContentPart")), F("sequence_number", TyU64) >>
      [] name = "ContentPartDoneData" ->
            << F("item_id", TyT), F("output_index", TyU32), F("content_index", TyU32),
               F("part", TyTagged("ContentPart")), F("sequence_number", TyU64) >>
      [] name = "OutputTextPart" ->
            << F("text", TyT), FOpt("annotations", TyVec(TyTagged("Annotation"))) >>
      [] name = "ReasoningTextPart" ->
            << F("text", TyT) >>
      [] name = "SummaryPart" ->
            << FFlat("content", TyTagged("SummaryContent")) >>
      [] name = "SummaryTextPart" ->
            << F("text", TyT) >>
      [] name = "OutputTextDeltaData" ->
            << F("output_index", TyU32), F("item_id", TyT), F("content_index", TyU32),
               F("delta", TyT), F("sequence_number", TyU64) >>
      [] name = "OutputTextDoneData" ->
            << F("item_id", TyT), F("output_index", TyU32), F("content_index", TyU32),
               F("text", TyT), F("sequence_number", TyU64) >>
      [] name = "ReasoningTextDeltaData" ->
            << F("output_index", TyU32), F("item_id", TyT), F("content_index", TyU32),
               F("delta", TyT), F("sequence_number", TyU64) >>
      [] name = "ReasoningTextDoneData" ->
            << F("output_index", TyU32), F("item_id", TyT), F("content_index", TyU32),
               F("text", TyT), F("sequence_number", TyU64) >>
      [] name = "ReasoningSummaryPartAddedData" ->
            << F("output_index", TyU32), F("item_id", TyT), F("summary_index", TyU32),
               F("part", TyStruct("SummaryPart")), F("sequence_number", TyU64) >>
      [] name = "ReasoningSummaryTextDeltaData" ->
            << F("item_id", TyT), F("output_index", TyU32), F("summary_index", TyU32),
               F("delta", TyT), F("sequence_number", TyU64) >>
      [] name = "ReasoningSummaryTextDoneData" ->
            << F("output_index", TyU32), F("item_id", TyT), F("summary_index", TyU32),
               F("text", TyT), F("sequence_number", TyU64) >>
      [] name = "ReasoningSummaryPartDoneData" ->
            << F("output_index", TyU32), F("item_id", TyT), F("summary_index", TyU32),
               F("part", TyStruct("SummaryPart")), F("sequence_number", TyU64) >>
      [] name = "FunctionCallArgumentsDeltaData" ->
            << F("item_id", TyT), F("output_index", TyU32), F("delta", TyT),
               F("sequence_number", TyU64) >>
      [] name = "FunctionCallArgumentsDoneData" ->
            << F("item_id", TyT), F("output_index", TyU32), F("name", TyT),
               F("arguments", TyT), F("sequence_number", TyU64) >>
      [] name = "AnnotationAddedData" ->
            << F("output_index", TyU32), F("item_id", TyT), F("content_index", TyU32),
               F("sequence_number", TyU64), F("annotation_index", TyU32),
               F("annotation", TyTagged("Annotation")) >>
      [] name = "UrlCitation" ->
            << F("url", TyT), F("title", TyT), F("start_index", TyU32),
               F("end_index", TyU32) >>

\* ------------------------------------------------------- the event decoder

Fail == [ok |-> FALSE]
Ok(val) == [ok |-> TRUE, val |-> val]

\* a tag that selects the variant declared after its own
VariantOf_off_by_one(enum, tag) ==
    LET hits == {i \in 1..Len(enum) : enum[i][1] = tag}
    IN  IF hits = {} THEN <<>> ELSE enum[((CHOOSE i \in hits : TRUE) % Len(enum)) + 1]

\* a tag outside the set that selects the variant declared first
VariantOf_falls_back(enum, tag) ==
    LET hits == {i \in 1..Len(enum) : enum[i][1] = tag}
    IN  IF hits = {} THEN enum[1] ELSE enum[CHOOSE i \in hits : TRUE]

\* The entry of a tagged enum that a wire tag selects (<<>> when there is none).
VariantOf(enum, tag) ==
    LET hits == {i \in 1..Len(enum) : enum[i][1] = tag}
    IN  IF hits = {} THEN <<>> ELSE enum[CHOOSE i \in hits : TRUE]

\* a decoder for which every field is required
Absent_is_an_error(field) == Fail

\* What serde fills in for a field that is absent from the object.
Absent(field) ==
    CASE field.ty.t = "option" -> Ok([v |-> "None"])
      [] field.ty.t = "vec" /\ ~field.req -> Ok([v |-> "Vec", a |-> <<>>])
      [] OTHER -> Fail

\* an unsigned integer that keeps the low bits of a number too wide for it
deserialize_unsigned_wrapping(ty, json) ==
    IF json.j = "number" /\ ~json.neg /\ ~json.frac
    THEN LET n == Len(json.digits)
         IN  Ok([v |-> ty.t,
                 n |-> IF n <= Width(ty) THEN json.digits
                       ELSE SubSeq(json.digits, n - Width(ty) + 1, n)])
    ELSE Fail

\* u32 / u64: a JSON number that is no integer of the field's range is an error.
deserialize_unsigned(ty, json) ==
    IF json.j = "number" /\ ~json.neg /\ ~json.frac /\ Len(json.digits) <= Width(ty)
    THEN Ok([v |-> ty.t, n |-> json.digits])
    ELSE Fail

RECURSIVE Deserialize(_, _)
RECURSIVE DeserializeStruct(_, _)

DeserializeStruct(name, f) ==
    LET fields == Fields(name)
        got == [i \in 1..Len(fields) |->
                   IF fields[i].flatten THEN Deserialize(fields[i].ty, JObj(f))
                   ELSE IF fields[i].name \in DOMAIN f
                        THEN Deserialize(fields[i].ty, f[fields[i].name])
                        ELSE Absent(fields[i])]
    IN  IF \A i \in 1..Len(fields) : got[i].ok
        THEN Ok([v |-> "struct", name |-> name,
                   f |-> [n \in {fields[i].name : i \in 1..Len(fields)} |->
                             got[CHOOSE i \in 1..Len(fields) : fields[i].name = n].val]])
        ELSE Fail

Deserialize(ty, json) ==
    CASE ty.t \in {"u32", "u64"} -> deserialize_unsigned(ty, json)
      [] ty.t = "f64" ->
            IF json.j = "number"
            THEN Ok([v |-> "f64", neg |-> json.neg, frac |-> json.frac, n |-> json.digits])
            ELSE Fail
      [] ty.t = "T" ->
            \* T = Cow<'_, str>, read through Cow's own Deserialize impl
            IF json.j = "string"
            THEN Ok([v |-> "Cow", cow |-> "Owned", s |-> json.s]) ELSE Fail
      [] ty.t = "Str" ->
            IF json.j = "string"
            THEN Ok([v |-> "Str", s |-> json.s, shared |-> FALSE]) ELSE Fail
      [] ty.t = "unit_enum" ->
            IF json.j = "string" /\ json.s \in UnitEnum(ty.name)
            THEN Ok([v |-> "unit", enum |-> ty.name, variant |-> json.s]) ELSE Fail
      [] ty.t = "option" ->
            IF json.j = "null" THEN Ok([v |-> "None"])
            ELSE LET x == Deserialize(ty.of, json)
                 IN  IF x.ok THEN Ok([v |-> "Some", x |-> x.val]) ELSE Fail
      [] ty.t = "vec" ->
            IF json.j # "array" THEN Fail
            ELSE LET xs == [i \in 1..Len(json.a) |-> Deserialize(ty.of, json.a[i])]
                 IN  IF \A i \in 1..Len(xs) : xs[i].ok
                     THEN Ok([v |-> "Vec", a |-> [i \in 1..Len(xs) |-> xs[i].val]])
                     ELSE Fail
      [] ty.t = "struct" ->
            IF json.j = "object" THEN DeserializeStruct(ty.name, json.f) ELSE Fail
      [] ty.t = "tagged" ->
            IF json.j = "object" /\ "type" \in DOMAIN json.f /\ json.f["type"].j = "string"
            THEN LET hit == VariantOf(TaggedEnum(ty.name), json.f["type"].s)
                 IN  IF hit = <<>> THEN Fail
                     ELSE LET x == DeserializeStruct(hit[3], json.f)
                          IN  IF x.ok
                              THEN Ok([v |-> "variant", enum |-> ty.name,
                                         variant |-> hit[2], x |-> x.val])
                              ELSE Fail
            ELSE Fail

\* serde_json::from_str::<StreamEvent<Cow<'_, str>>>(&ev.data)
from_str(data) ==
    IF data.json = NotJson THEN Fail
    ELSE Deserialize(TyTagged("StreamEvent"), data.json)

\* ------------------------------------------- the borrowed -> owned converter

\* impl_conversion!($target): the value is already owned and is returned as is.
ConvertsAsIs ==
    {"ResponseCreatedData", "ResponseInProgressData", "ResponseCompletedData",
     "ResponseMetadata", "UsageInfo"}

\* impl_conversion!($target struct [converted fields] [copied fields])
TargetFields(name) ==
    CASE name \in {"OutputItemAddedData", "OutputItemDoneData"} -> {"item"}
      [] name = "MessageItem" -> {"id", "content"}
      [] name = "ReasoningItem" -> {"id", "summary", "encrypted_content"}
      [] name = "FunctionCallItem" -> {"call_id", "name", "arguments"}
      [] name \in {"ContentPartAddedData", "ContentPartDoneData"} -> {"item_id", "part"}
      [] name = "OutputTextPart" -> {"text", "annotations"}
      [] name \in {"ReasoningTextPart", "SummaryTextPart"} -> {"text"}
      [] name = "SummaryPart" -> {"content"}
      [] name \in {"OutputTextDeltaData", "ReasoningTextDeltaData",
                   "ReasoningSummaryTextDeltaData", "FunctionCallArgumentsDeltaData"} ->
            {"item_id", "delta"}
      [] name \in {"OutputTextDoneData", "ReasoningTextDoneData",
                   "ReasoningSummaryTextDoneData"} -> {"item_id", "text"}
      [] name \in {"ReasoningSummaryPartAddedData", "ReasoningSummaryPartDoneData"} ->
            {"item_id", "part"}
      [] name = "FunctionCallArgumentsDoneData" -> {"item_id", "name", "arguments"}
      [] name = "AnnotationAddedData" -> {"item_id", "annotation"}
      [] name = "UrlCitation" -> {"url", "title"}

RECURSIVE convert_to_owned(_, _)

\* a handle that is a slice of the payload whatever the decoder did
\* a handle that is not on the decoder's bytes
Cow_convert_to_owned_empty_handle(val, buf) ==
    [v |-> "Str", s |-> "", shared |-> FALSE]

Cow_convert_to_owned_always_slices(val, buf) ==
    [v |-> "Str", s |-> val.s, shared |-> TRUE]

\* impl ConvertToOwned for Cow<'_, str>: `shared` is whether the handle is a
\* range of the payload's allocation.
Cow_convert_to_owned(val, buf) ==
    IF val.cow = "Borrowed"
    THEN [v |-> "Str", s |-> val.s, shared |-> TRUE]    \* buf.slice_ref(subslice)
    ELSE [v |-> "Str", s |-> val.s, shared |-> FALSE]   \* Bytes::from(owned.into_bytes())

\* a list converted back to front
Vec_convert_to_owned_reversed(val, buf) ==
    [v |-> "Vec",
     a |-> [i \in 1..Len(val.a) |-> convert_to_owned(val.a[Len(val.a) + 1 - i], buf)]]

\* impl<T> ConvertToOwned for Vec<T>
Vec_convert_to_owned(val, buf) ==
    [v |-> "Vec", a |-> [i \in 1..Len(val.a) |-> convert_to_owned(val.a[i], buf)]]

\* impl<T> ConvertToOwned for Option<T>
Option_convert_to_owned(val, buf) ==
    IF val.v = "Some" THEN [v |-> "Some", x |-> convert_to_owned(val.x, buf)] ELSE val

\* a match arm that builds the variant declared first
enum_convert_to_owned_first_variant(val, buf) ==
    [val EXCEPT !.variant = TaggedEnum(val.enum)[1][2], !.x = convert_to_owned(val.x, buf)]

\* impl_conversion!($target enum [tuple variants] [unit variants])
enum_convert_to_owned(val, buf) ==
    [val EXCEPT !.x = convert_to_owned(val.x, buf)]

\* impl_conversion!($target struct ..) and impl_conversion!($target)
struct_convert_to_owned(val, buf) ==
    IF val.name \in ConvertsAsIs THEN val
    ELSE [val EXCEPT !.f = [n \in DOMAIN val.f |->
                               IF n \in TargetFields(val.name)
                               THEN convert_to_owned(val.f[n], buf)
                               ELSE val.f[n]]]

\* ConvertToOwned::convert_to_owned, by the type of the value
convert_to_owned(val, buf) ==
    CASE val.v = "Cow" -> Cow_convert_to_owned(val, buf)
      [] val.v = "Vec" -> Vec_convert_to_owned(val, buf)
      [] val.v \in {"Some", "None"} -> Option_convert_to_owned(val, buf)
      [] val.v = "variant" -> enum_convert_to_owned(val, buf)
      [] val.v = "struct" -> struct_convert_to_owned(val, buf)
      [] OTHER -> val

\* ------------------------------------------------------------ the input

\* data: [DONE]
DoneRecord == Payload("[DONE]", NotJson)

\* data: {"type":"response.created","response":{"id":"test","status":"in_progress"},"sequence_number":0}
CreatedRecord ==
    Payload("{\"type\":\"response.created\",\"response\":{\"id\":\"test\",\"status\":\"in_progress\"},\"sequence_number\":0}",
            JObj([type |-> JStr("response.created", FALSE),
                  response |-> JObj([id |-> JStr("test", FALSE),
                                     status |-> JStr("in_progress", FALSE)]),
                  sequence_number |-> JNum(0)]))

\* a record whose tag is none of the 18
UnknownTagRecord ==
    Payload("{\"type\":\"response.queued\",\"sequence_number\":1}",
            JObj([type |-> JStr("response.queued", FALSE), sequence_number |-> JNum(1)]))

\* a record that is no JSON at all
GarbageRecord == Payload("not json", NotJson)

Payloads == {DoneRecord, CreatedRecord, UnknownTagRecord, GarbageRecord}

\* One record of each of the 18 kinds, in the order of their declaration.
EventRecords ==
    <<
    \* data: {"type":"response.created","response":{"id":"resp_1","status":"in_progress"},"sequence_number":0}
    Payload("{\"type\":\"response.created\",\"response\":{\"id\":\"resp_1\",\"status\":\"in_progress\"},\"sequence_number\":0}",
            JObj([type |-> JStr("response.created", FALSE), response |-> JObj([id |-> JStr("resp_1", FALSE), status |-> JStr("in_progress", FALSE)]), sequence_number |-> JNum(0)])),
    \* data: {"type":"response.in_progress","response":{"id":"resp_1","status":"in_progress"},"sequence_number":1}
    Payload("{\"type\":\"response.in_progress\",\"response\":{\"id\":\"resp_1\",\"status\":\"in_progress\"},\"sequence_number\":1}",
            JObj([type |-> JStr("response.in_progress", FALSE), response |-> JObj([id |-> JStr("resp_1", FALSE), status |-> JStr("in_progress", FALSE)]), sequence_number |-> JNum(1)])),
    \* data: {"type":"response.output_item.added","output_index":0,"item":{"type":"message","id":"msg_1","status":"in_progress","content":[]},"sequence_number":2}
    Payload("{\"type\":\"response.output_item.added\",\"output_index\":0,\"item\":{\"type\":\"message\",\"id\":\"msg_1\",\"status\":\"in_progress\",\"content\":[]},\"sequence_number\":2}",
            JObj([type |-> JStr("response.output_item.added", FALSE), output_index |-> JNum(0), item |-> JObj([type |-> JStr("message", FALSE), id |-> JStr("msg_1", FALSE), status |-> JStr("in_progress", FALSE), content |-> JArr(<<>>)]), sequence_number |-> JNum(2)])),
    \* data: {"type":"response.content_part.added","item_id":"msg_1","output_index":0,"content_index":0,"part":{"type":"output_text","text":"","annotations":[]},"sequence_number":3}
    Payload("{\"type\":\"response.content_part.added\",\"item_id\":\"msg_1\",\"output_index\":0,\"content_index\":0,\"part\":{\"type\":\"output_text\",\"text\":\"\",\"annotations\":[]},\"sequence_number\":3}",
            JObj([type |-> JStr("response.content_part.added", FALSE), item_id |-> JStr("msg_1", FALSE), output_index |-> JNum(0), content_index |-> JNum(0), part |-> JObj([type |-> JStr("output_text", FALSE), text |-> JStr("", FALSE), annotations |-> JArr(<<>>)]), sequence_number |-> JNum(3)])),
    \* data: {"type":"response.output_text.delta","output_index":0,"item_id":"msg_1","content_index":0,"delta":"Hel","sequence_number":4}
    Payload("{\"type\":\"response.output_text.delta\",\"output_index\":0,\"item_id\":\"msg_1\",\"content_index\":0,\"delta\":\"Hel\",\"sequence_number\":4}",
            JObj([type |-> JStr("response.output_text.delta", FALSE), output_index |-> JNum(0), item_id |-> JStr("msg_1", FALSE), content_index |-> JNum(0), delta |-> JStr("Hel", FALSE), sequence_number |-> JNum(4)])),
    \* data: {"type":"response.output_text.annotation.added","output_index":0,"item_id":"msg_1","content_index":0,"sequence_number":5,"annotation_index":1,"annotation":{"type":"url_citation","url":"https://b.example","title":"B","start_index":6,"end_index":9}}
    Payload("{\"type\":\"response.output_text.annotation.added\",\"output_index\":0,\"item_id\":\"msg_1\",\"content_index\":0,\"sequence_number\":5,\"annotation_index\":1,\"annotation\":{\"type\":\"url_citation\",\"url\":\"https://b.example\",\"title\":\"B\",\"start_index\":6,\"end_index\":9}}",
            JObj([type |-> JStr("response.output_text.annotation.added", FALSE), output_index |-> JNum(0), item_id |-> JStr("msg_1", FALSE), content_index |-> JNum(0), sequence_number |-> JNum(5), annotation_index |-> JNum(1), annotation |-> JObj([type |-> JStr("url_citation", FALSE), url |-> JStr("https://b.example", FALSE), title |-> JStr("B", FALSE), start_index |-> JNum(6), end_index |-> JNum(9)])])),
    \* data: {"type":"response.output_text.done","item_id":"msg_1","output_index":0,"content_index":0,"text":"Hello","sequence_number":6}
    Payload("{\"type\":\"response.output_text.done\",\"item_id\":\"msg_1\",\"output_index\":0,\"content_index\":0,\"text\":\"Hello\",\"sequence_number\":6}",
            JObj([type |-> JStr("response.output_text.done", FALSE), item_id |-> JStr("msg_1", FALSE), output_index |-> JNum(0), content_index |-> JNum(0), text |-> JStr("Hello", FALSE), sequence_number |-> JNum(6)])),
    \* data: {"type":"response.content_part.done","item_id":"msg_1","output_index":0,"content_index":0,"part":{"type":"output_text","text":"Hello","annotations":[{"type":"url_citation","url":"https://a.example","title":"A","start_index":0,"end_index":5},{"type":"url_citation","url":"https://b.example","title":"B","start_index":6,"end_index":9}]},"sequence_number":7}
    Payload("{\"type\":\"response.content_part.done\",\"item_id\":\"msg_1\",\"output_index\":0,\"content_index\":0,\"part\":{\"type\":\"output_text\",\"text\":\"Hello\",\"annotations\":[{\"type\":\"url_citation\",\"url\":\"https://a.example\",\"title\":\"A\",\"start_index\":0,\"end_index\":5},{\"type\":\"url_citation\",\"url\":\"https://b.example\",\"title\":\"B\",\"start_index\":6,\"end_index\":9}]},\"sequence_number\":7}",
            JObj([type |-> JStr("response.content_part.done", FALSE), item_id |-> JStr("msg_1", FALSE), output_index |-> JNum(0), content_index |-> JNum(0), part |-> JObj([type |-> JStr("output_text", FALSE), text |-> JStr("Hello", FALSE), annotations |-> JArr(<<JObj([type |-> JStr("url_citation", FALSE), url |-> JStr("https://a.example", FALSE), title |-> JStr("A", FALSE), start_index |-> JNum(0), end_index |-> JNum(5)]), JObj([type |-> JStr("url_citation", FALSE), url |-> JStr("https://b.example", FALSE), title |-> JStr("B", FALSE), start_index |-> JNum(6), end_index |-> JNum(9)])>>)]), sequence_number |-> JNum(7)])),
    \* data: {"type":"response.output_item.done","output_index":0,"item":{"type":"message","id":"msg_1","status":"completed","content":[{"type":"output_text","text":"Hello"},{"type":"reasoning_text","text":"why"},{"type":"summary_text","text":"sum"}]},"sequence_number":8}
    Payload("{\"type\":\"response.output_item.done\",\"output_index\":0,\"item\":{\"type\":\"message\",\"id\":\"msg_1\",\"status\":\"completed\",\"content\":[{\"type\":\"output_text\",\"text\":\"Hello\"},{\"type\":\"reasoning_text\",\"text\":\"why\"},{\"type\":\"summary_text\",\"text\":\"sum\"}]},\"sequence_number\":8}",
            JObj([type |-> JStr("response.output_item.done", FALSE), output_index |-> JNum(0), item |-> JObj([type |-> JStr("message", FALSE), id |-> JStr("msg_1", FALSE), status |-> JStr("completed", FALSE), content |-> JArr(<<JObj([type |-> JStr("output_text", FALSE), text |-> JStr("Hello", FALSE)]), JObj([type |-> JStr("reasoning_text", FALSE), text |-> JStr("why", FALSE)]), JObj([type |-> JStr("summary_text", FALSE), text |-> JStr("sum", FALSE)])>>)]), sequence_number |-> JNum(8)])),
    \* data: {"type":"response.function_call_arguments.delta","item_id":"fc_1","output_index":1,"delta":"{","sequence_number":9}
    Payload("{\"type\":\"response.function_call_arguments.delta\",\"item_id\":\"fc_1\",\"output_index\":1,\"delta\":\"{\",\"sequence_number\":9}",
            JObj([type |-> JStr("response.function_call_arguments.delta", FALSE), item_id |-> JStr("fc_1", FALSE), output_index |-> JNum(1), delta |-> JStr("{", FALSE), sequence_number |-> JNum(9)])),
    \* data: {"type":"response.function_call_arguments.done","item_id":"fc_1","output_index":1,"name":"lookup","arguments":"{\"q\":1}","sequence_number":10}
    Payload("{\"type\":\"response.function_call_arguments.done\",\"item_id\":\"fc_1\",\"output_index\":1,\"name\":\"lookup\",\"arguments\":\"{\\\"q\\\":1}\",\"sequence_number\":10}",
            JObj([type |-> JStr("response.function_call_arguments.done", FALSE), item_id |-> JStr("fc_1", FALSE), output_index |-> JNum(1), name |-> JStr("lookup", FALSE), arguments |-> JStr("{\"q\":1}", TRUE), sequence_number |-> JNum(10)])),
    \* data: {"type":"response.reasoning_text.delta","output_index":2,"item_id":"rs_1","content_index":0,"delta":"hm","sequence_number":11}
    Payload("{\"type\":\"response.reasoning_text.delta\",\"output_index\":2,\"item_id\":\"rs_1\",\"content_index\":0,\"delta\":\"hm\",\"sequence_number\":11}",
            JObj([type |-> JStr("response.reasoning_text.delta", FALSE), output_index |-> JNum(2), item_id |-> JStr("rs_1", FALSE), content_index |-> JNum(0), delta |-> JStr("hm", FALSE), sequence_number |-> JNum(11)])),
    \* data: {"type":"response.reasoning_text.done","output_index":2,"item_id":"rs_1","content_index":0,"text":"hmm","sequence_number":12}
    Payload("{\"type\":\"response.reasoning_text.done\",\"output_index\":2,\"item_id\":\"rs_1\",\"content_index\":0,\"text\":\"hmm\",\"sequence_number\":12}",
            JObj([type |-> JStr("response.reasoning_text.done", FALSE), output_index |-> JNum(2), item_id |-> JStr("rs_1", FALSE), content_index |-> JNum(0), text |-> JStr("hmm", FALSE), sequence_number |-> JNum(12)])),
    \* data: {"type":"response.reasoning_summary_part.added","output_index":2,"item_id":"rs_1","summary_index":0,"part":{"type":"summary_text","text":""},"sequence_number":13}
    Payload("{\"type\":\"response.reasoning_summary_part.added\",\"output_index\":2,\"item_id\":\"rs_1\",\"summary_index\":0,\"part\":{\"type\":\"summary_text\",\"text\":\"\"},\"sequence_number\":13}",
            JObj([type |-> JStr("response.reasoning_summary_part.added", FALSE), output_index |-> JNum(2), item_id |-> JStr("rs_1", FALSE), summary_index |-> JNum(0), part |-> JObj([type |-> JStr("summary_text", FALSE), text |-> JStr("", FALSE)]), sequence_number |-> JNum(13)])),
    \* data: {"type":"response.reasoning_summary_text.delta","item_id":"rs_1","output_index":2,"summary_index":0,"delta":"so","sequence_number":14}
    Payload("{\"type\":\"response.reasoning_summary_text.delta\",\"item_id\":\"rs_1\",\"output_index\":2,\"summary_index\":0,\"delta\":\"so\",\"sequence_number\":14}",
            JObj([type |-> JStr("response.reasoning_summary_text.delta", FALSE), item_id |-> JStr("rs_1", FALSE), output_index |-> JNum(2), summary_index |-> JNum(0), delta |-> JStr("so", FALSE), sequence_number |-> JNum(14)])),
    \* data: {"type":"response.reasoning_summary_text.done","output_index":2,"item_id":"rs_1","summary_index":0,"text":"sol","sequence_number":15}
    Payload("{\"type\":\"response.reasoning_summary_text.done\",\"output_index\":2,\"item_id\":\"rs_1\",\"summary_index\":0,\"text\":\"sol\",\"sequence_number\":15}",
            JObj([type |-> JStr("response.reasoning_summary_text.done", FALSE), output_index |-> JNum(2), item_id |-> JStr("rs_1", FALSE), summary_index |-> JNum(0), text |-> JStr("sol", FALSE), sequence_number |-> JNum(15)])),
    \* data: {"type":"response.reasoning_summary_part.done","output_index":2,"item_id":"rs_1","summary_index":0,"part":{"type":"summary_text","text":"sol"},"sequence_number":16}
    Payload("{\"type\":\"response.reasoning_summary_part.done\",\"output_index\":2,\"item_id\":\"rs_1\",\"summary_index\":0,\"part\":{\"type\":\"summary_text\",\"text\":\"sol\"},\"sequence_number\":16}",
            JObj([type |-> JStr("response.reasoning_summary_part.done", FALSE), output_index |-> JNum(2), item_id |-> JStr("rs_1", FALSE), summary_index |-> JNum(0), part |-> JObj([type |-> JStr("summary_text", FALSE), text |-> JStr("sol", FALSE)]), sequence_number |-> JNum(16)])),
    \* data: {"type":"response.completed","response":{"id":"resp_1","status":"completed","usage":{"input_tokens":3,"output_tokens":5,"total_tokens":8,"cost":0.25}},"sequence_number":17}
    Payload("{\"type\":\"response.completed\",\"response\":{\"id\":\"resp_1\",\"status\":\"completed\",\"usage\":{\"input_tokens\":3,\"output_tokens\":5,\"total_tokens\":8,\"cost\":0.25}},\"sequence_number\":17}",
            JObj([type |-> JStr("response.completed", FALSE), response |-> JObj([id |-> JStr("resp_1", FALSE), status |-> JStr("completed", FALSE), usage |-> JObj([input_tokens |-> JNum(3), output_tokens |-> JNum(5), total_tokens |-> JNum(8), cost |-> JNumber(FALSE, TRUE, <<0>>)])]), sequence_number |-> JNum(17)]))
    >>

\* Records that carry the other output items: lists, and optional values
\* present and null.
ItemRecords ==
    {
    \* data: {"type":"response.output_item.added","output_index":2,"item":{"type":"reasoning","id":"rs_1","summary":[{"type":"summary_text","text":"one"},{"type":"summary_text","text":"two"}],"encrypted_content":"gAAA"},"sequence_number":2}
    Payload("{\"type\":\"response.output_item.added\",\"output_index\":2,\"item\":{\"type\":\"reasoning\",\"id\":\"rs_1\",\"summary\":[{\"type\":\"summary_text\",\"text\":\"one\"},{\"type\":\"summary_text\",\"text\":\"two\"}],\"encrypted_content\":\"gAAA\"},\"sequence_number\":2}",
            JObj([type |-> JStr("response.output_item.added", FALSE), output_index |-> JNum(2), item |-> JObj([type |-> JStr("reasoning", FALSE), id |-> JStr("rs_1", FALSE), summary |-> JArr(<<JObj([type |-> JStr("summary_text", FALSE), text |-> JStr("one", FALSE)]), JObj([type |-> JStr("summary_text", FALSE), text |-> JStr("two", FALSE)])>>), encrypted_content |-> JStr("gAAA", FALSE)]), sequence_number |-> JNum(2)])),
    \* data: {"type":"response.output_item.done","output_index":2,"item":{"type":"reasoning","id":"rs_1","encrypted_content":null},"sequence_number":8}
    Payload("{\"type\":\"response.output_item.done\",\"output_index\":2,\"item\":{\"type\":\"reasoning\",\"id\":\"rs_1\",\"encrypted_content\":null},\"sequence_number\":8}",
            JObj([type |-> JStr("response.output_item.done", FALSE), output_index |-> JNum(2), item |-> JObj([type |-> JStr("reasoning", FALSE), id |-> JStr("rs_1", FALSE), encrypted_content |-> JNull]), sequence_number |-> JNum(8)])),
    \* data: {"type":"response.output_item.done","output_index":1,"item":{"type":"function_call","call_id":"call_1","name":"lookup","arguments":"{\"q\":1}","status":"completed"},"sequence_number":8}
    Payload("{\"type\":\"response.output_item.done\",\"output_index\":1,\"item\":{\"type\":\"function_call\",\"call_id\":\"call_1\",\"name\":\"lookup\",\"arguments\":\"{\\\"q\\\":1}\",\"status\":\"completed\"},\"sequence_number\":8}",
            JObj([type |-> JStr("response.output_item.done", FALSE), output_index |-> JNum(1), item |-> JObj([type |-> JStr("function_call", FALSE), call_id |-> JStr("call_1", FALSE), name |-> JStr("lookup", FALSE), arguments |-> JStr("{\"q\":1}", TRUE), status |-> JStr("completed", FALSE)]), sequence_number |-> JNum(8)]))
    }

\* Records that leave out a list or an optional value: a message without
\* content, a reasoning item without summary and encrypted_content, a text part
\* without annotations, a usage without cost and a response without usage.
AbsentFieldRecords ==
    <<
    \* data: {"type":"response.output_item.added","output_index":0,"item":{"type":"message","id":"msg_1","status":"in_progress"},"sequence_number":2}
    Payload("{\"type\":\"response.output_item.added\",\"output_index\":0,\"item\":{\"type\":\"message\",\"id\":\"msg_1\",\"status\":\"in_progress\"},\"sequence_number\":2}",
            JObj([type |-> JStr("response.output_item.added", FALSE), output_index |-> JNum(0), item |-> JObj([type |-> JStr("message", FALSE), id |-> JStr("msg_1", FALSE), status |-> JStr("in_progress", FALSE)]), sequence_number |-> JNum(2)])),
    \* data: {"type":"response.output_item.added","output_index":2,"item":{"type":"reasoning","id":"rs_1"},"sequence_number":2}
    Payload("{\"type\":\"response.output_item.added\",\"output_index\":2,\"item\":{\"type\":\"reasoning\",\"id\":\"rs_1\"},\"sequence_number\":2}",
            JObj([type |-> JStr("response.output_item.added", FALSE), output_index |-> JNum(2), item |-> JObj([type |-> JStr("reasoning", FALSE), id |-> JStr("rs_1", FALSE)]), sequence_number |-> JNum(2)])),
    \* data: {"type":"response.content_part.added","item_id":"msg_1","output_index":0,"content_index":0,"part":{"type":"output_text","text":"Hi"},"sequence_number":3}
    Payload("{\"type\":\"response.content_part.added\",\"item_id\":\"msg_1\",\"output_index\":0,\"content_index\":0,\"part\":{\"type\":\"output_text\",\"text\":\"Hi\"},\"sequence_number\":3}",
            JObj([type |-> JStr("response.content_part.added", FALSE), item_id |-> JStr("msg_1", FALSE), output_index |-> JNum(0), content_index |-> JNum(0), part |-> JObj([type |-> JStr("output_text", FALSE), text |-> JStr("Hi", FALSE)]), sequence_number |-> JNum(3)])),
    \* data: {"type":"response.completed","response":{"id":"resp_1","status":"completed","usage":{"input_tokens":3,"output_tokens":5,"total_tokens":8}},"sequence_number":15}
    Payload("{\"type\":\"response.completed\",\"response\":{\"id\":\"resp_1\",\"status\":\"completed\",\"usage\":{\"input_tokens\":3,\"output_tokens\":5,\"total_tokens\":8}},\"sequence_number\":15}",
            JObj([type |-> JStr("response.completed", FALSE), response |-> JObj([id |-> JStr("resp_1", FALSE), status |-> JStr("completed", FALSE), usage |-> JObj([input_tokens |-> JNum(3), output_tokens |-> JNum(5), total_tokens |-> JNum(8)])]), sequence_number |-> JNum(15)])),
    \* data: {"type":"response.completed","response":{"id":"resp_1","status":"completed"},"sequence_number":15}
    Payload("{\"type\":\"response.completed\",\"response\":{\"id\":\"resp_1\",\"status\":\"completed\"},\"sequence_number\":15}",
            JObj([type |-> JStr("response.completed", FALSE), response |-> JObj([id |-> JStr("resp_1", FALSE), status |-> JStr("completed", FALSE)]), sequence_number |-> JNum(15)]))
    >>

\* A text delta whose text has a line feed, written as an escape.
\* data: {"type":"response.output_text.delta","output_index":0,"item_id":"msg_1","content_index":0,"delta":"line1\nline2","sequence_number":4}
EscapedDeltaRecord ==
    Payload("{\"type\":\"response.output_text.delta\",\"output_index\":0,\"item_id\":\"msg_1\",\"content_index\":0,\"delta\":\"line1\\nline2\",\"sequence_number\":4}",
            JObj([type |-> JStr("response.output_text.delta", FALSE), output_index |-> JNum(0), item_id |-> JStr("msg_1", FALSE), content_index |-> JNum(0), delta |-> JStr("line1\nline2", TRUE), sequence_number |-> JNum(4)]))

\* Records with a nested discriminator outside its set: the output-item kind,
\* the content-part kind, the annotation kind, the item status, the response
\* status, and the kind of a summary part.
UnknownKindRecords ==
    {
    \* data: {"type":"response.output_item.added","output_index":0,"item":{"type":"web_search_call","id":"ws_1","status":"in_progress"},"sequence_number":2}
    Payload("{\"type\":\"response.output_item.added\",\"output_index\":0,\"item\":{\"type\":\"web_search_call\",\"id\":\"ws_1\",\"status\":\"in_progress\"},\"sequence_number\":2}",
            JObj([type |-> JStr("response.output_item.added", FALSE), output_index |-> JNum(0), item |-> JObj([type |-> JStr("web_search_call", FALSE), id |-> JStr("ws_1", FALSE), status |-> JStr("in_progress", FALSE)]), sequence_number |-> JNum(2)])),
    \* data: {"type":"response.content_part.added","item_id":"msg_1","output_index":0,"content_index":0,"part":{"type":"refusal","text":"no"},"sequence_number":3}
    Payload("{\"type\":\"response.content_part.added\",\"item_id\":\"msg_1\",\"output_index\":0,\"content_index\":0,\"part\":{\"type\":\"refusal\",\"text\":\"no\"},\"sequence_number\":3}",
            JObj([type |-> JStr("response.content_part.added", FALSE), item_id |-> JStr("msg_1", FALSE), output_index |-> JNum(0), content_index |-> JNum(0), part |-> JObj([type |-> JStr("refusal", FALSE), text |-> JStr("no", FALSE)]), sequence_number |-> JNum(3)])),
    \* data: {"type":"response.output_text.annotation.added","output_index":0,"item_id":"msg_1","content_index":0,"sequence_number":5,"annotation_index":0,"annotation":{"type":"file_citation","url":"https://a.example","title":"A","start_index":0,"end_index":5}}
    Payload("{\"type\":\"response.output_text.annotation.added\",\"output_index\":0,\"item_id\":\"msg_1\",\"content_index\":0,\"sequence_number\":5,\"annotation_index\":0,\"annotation\":{\"type\":\"file_citation\",\"url\":\"https://a.example\",\"title\":\"A\",\"start_index\":0,\"end_index\":5}}",
            JObj([type |-> JStr("response.output_text.annotation.added", FALSE), output_index |-> JNum(0), item_id |-> JStr("msg_1", FALSE), content_index |-> JNum(0), sequence_number |-> JNum(5), annotation_index |-> JNum(0), annotation |-> JObj([type |-> JStr("file_citation", FALSE), url |-> JStr("https://a.example", FALSE), title |-> JStr("A", FALSE), start_index |-> JNum(0), end_index |-> JNum(5)])])),
    \* data: {"type":"response.output_item.added","output_index":0,"item":{"type":"message","id":"msg_1","status":"incomplete","content":[]},"sequence_number":2}
    Payload("{\"type\":\"response.output_item.added\",\"output_index\":0,\"item\":{\"type\":\"message\",\"id\":\"msg_1\",\"status\":\"incomplete\",\"content\":[]},\"sequence_number\":2}",
            JObj([type |-> JStr("response.output_item.added", FALSE), output_index |-> JNum(0), item |-> JObj([type |-> JStr("message", FALSE), id |-> JStr("msg_1", FALSE), status |-> JStr("incomplete", FALSE), content |-> JArr(<<>>)]), sequence_number |-> JNum(2)])),
    \* data: {"type":"response.created","response":{"id":"resp_1","status":"queued"},"sequence_number":0}
    Payload("{\"type\":\"response.created\",\"response\":{\"id\":\"resp_1\",\"status\":\"queued\"},\"sequence_number\":0}",
            JObj([type |-> JStr("response.created", FALSE), response |-> JObj([id |-> JStr("resp_1", FALSE), status |-> JStr("queued", FALSE)]), sequence_number |-> JNum(0)])),
    \* data: {"type":"response.reasoning_summary_part.added","output_index":2,"item_id":"rs_1","summary_index":0,"part":{"type":"output_text","text":""},"sequence_number":13}
    Payload("{\"type\":\"response.reasoning_summary_part.added\",\"output_index\":2,\"item_id\":\"rs_1\",\"summary_index\":0,\"part\":{\"type\":\"output_text\",\"text\":\"\"},\"sequence_number\":13}",
            JObj([type |-> JStr("response.reasoning_summary_part.added", FALSE), output_index |-> JNum(2), item_id |-> JStr("rs_1", FALSE), summary_index |-> JNum(0), part |-> JObj([type |-> JStr("output_text", FALSE), text |-> JStr("", FALSE)]), sequence_number |-> JNum(13)]))
    }

\* Text deltas with a number at the upper end of its field: output_index =
\* 2^32 - 1, sequence_number = 2^32 and 2^64 - 1.
InRangeRecords ==
    {
    \* data: {"type":"response.output_text.delta","output_index":4294967295,"item_id":"msg_1","content_index":0,"delta":"Hel","sequence_number":4}
    Payload("{\"type\":\"response.output_text.delta\",\"output_index\":4294967295,\"item_id\":\"msg_1\",\"content_index\":0,\"delta\":\"Hel\",\"sequence_number\":4}",
            JObj([type |-> JStr("response.output_text.delta", FALSE), output_index |-> JNumber(FALSE, FALSE, <<65535, 65535>>), item_id |-> JStr("msg_1", FALSE), content_index |-> JNum(0), delta |-> JStr("Hel", FALSE), sequence_number |-> JNum(4)])),
    \* data: {"type":"response.output_text.delta","output_index":0,"item_id":"msg_1","content_index":0,"delta":"Hel","sequence_number":4294967296}
    Payload("{\"type\":\"response.output_text.delta\",\"output_index\":0,\"item_id\":\"msg_1\",\"content_index\":0,\"delta\":\"Hel\",\"sequence_number\":4294967296}",
            JObj([type |-> JStr("response.output_text.delta", FALSE), output_index |-> JNum(0), item_id |-> JStr("msg_1", FALSE), content_index |-> JNum(0), delta |-> JStr("Hel", FALSE), sequence_number |-> JNumber(FALSE, FALSE, <<1, 0, 0>>)])),
    \* data: {"type":"response.output_text.delta","output_index":0,"item_id":"msg_1","content_index":0,"delta":"Hel","sequence_number":18446744073709551615}
    Payload("{\"type\":\"response.output_text.delta\",\"output_index\":0,\"item_id\":\"msg_1\",\"content_index\":0,\"delta\":\"Hel\",\"sequence_number\":18446744073709551615}",
            JObj([type |-> JStr("response.output_text.delta", FALSE), output_index |-> JNum(0), item_id |-> JStr("msg_1", FALSE), content_index |-> JNum(0), delta |-> JStr("Hel", FALSE), sequence_number |-> JNumber(FALSE, FALSE, <<65535, 65535, 65535, 65535>>)]))
    }

\* Records with a number its field does not hold: 2^32 and 2^64, negative
\* numbers, a string, a fraction, null, and the same one level and two levels
\* down.
OutOfRangeRecords ==
    {
    \* data: {"type":"response.output_text.delta","output_index":4294967296,"item_id":"msg_1","content_index":0,"delta":"Hel","sequence_number":4}
    Payload("{\"type\":\"response.output_text.delta\",\"output_index\":4294967296,\"item_id\":\"msg_1\",\"content_index\":0,\"delta\":\"Hel\",\"sequence_number\":4}",
            JObj([type |-> JStr("response.output_text.delta", FALSE), output_index |-> JNumber(FALSE, FALSE, <<1, 0, 0>>), item_id |-> JStr("msg_1", FALSE), content_index |-> JNum(0), delta |-> JStr("Hel", FALSE), sequence_number |-> JNum(4)])),
    \* data: {"type":"response.output_text.delta","output_index":0,"item_id":"msg_1","content_index":-1,"delta":"Hel","sequence_number":4}
    Payload("{\"type\":\"response.output_text.delta\",\"output_index\":0,\"item_id\":\"msg_1\",\"content_index\":-1,\"delta\":\"Hel\",\"sequence_number\":4}",
            JObj([type |-> JStr("response.output_text.delta", FALSE), output_index |-> JNum(0), item_id |-> JStr("msg_1", FALSE), content_index |-> JNum(-1), delta |-> JStr("Hel", FALSE), sequence_number |-> JNum(4)])),
    \* data: {"type":"response.output_text.delta","output_index":"0","item_id":"msg_1","content_index":0,"delta":"Hel","sequence_number":4}
    Payload("{\"type\":\"response.output_text.delta\",\"output_index\":\"0\",\"item_id\":\"msg_1\",\"content_index\":0,\"delta\":\"Hel\",\"sequence_number\":4}",
            JObj([type |-> JStr("response.output_text.delta", FALSE), output_index |-> JStr("0", FALSE), item_id |-> JStr("msg_1", FALSE), content_index |-> JNum(0), delta |-> JStr("Hel", FALSE), sequence_number |-> JNum(4)])),
    \* data: {"type":"response.output_text.delta","output_index":0,"item_id":"msg_1","content_index":1.5,"delta":"Hel","sequence_number":4}
    Payload("{\"type\":\"response.output_text.delta\",\"output_index\":0,\"item_id\":\"msg_1\",\"content_index\":1.5,\"delta\":\"Hel\",\"sequence_number\":4}",
            JObj([type |-> JStr("response.output_text.delta", FALSE), output_index |-> JNum(0), item_id |-> JStr("msg_1", FALSE), content_index |-> JNumber(FALSE, TRUE, <<1>>), delta |-> JStr("Hel", FALSE), sequence_number |-> JNum(4)])),
    \* data: {"type":"response.output_text.delta","output_index":0,"item_id":"msg_1","content_index":0,"delta":"Hel","sequence_number":18446744073709551616}
    Payload("{\"type\":\"response.output_text.delta\",\"output_index\":0,\"item_id\":\"msg_1\",\"content_index\":0,\"delta\":\"Hel\",\"sequence_number\":18446744073709551616}",
            JObj([type |-> JStr("response.output_text.delta", FALSE), output_index |-> JNum(0), item_id |-> JStr("msg_1", FALSE), content_index |-> JNum(0), delta |-> JStr("Hel", FALSE), sequence_number |-> JNumber(FALSE, FALSE, <<1, 0, 0, 0, 0>>)])),
    \* data: {"type":"response.output_text.delta","output_index":0,"item_id":"msg_1","content_index":0,"delta":"Hel","sequence_number":-1}
    Payload("{\"type\":\"response.output_text.delta\",\"output_index\":0,\"item_id\":\"msg_1\",\"content_index\":0,\"delta\":\"Hel\",\"sequence_number\":-1}",
            JObj([type |-> JStr("response.output_text.delta", FALSE), output_index |-> JNum(0), item_id |-> JStr("msg_1", FALSE), content_index |-> JNum(0), delta |-> JStr("Hel", FALSE), sequence_number |-> JNum(-1)])),
    \* data: {"type":"response.output_text.delta","output_index":0,"item_id":"msg_1","content_index":0,"delta":"Hel","sequence_number":null}
    Payload("{\"type\":\"response.output_text.delta\",\"output_index\":0,\"item_id\":\"msg_1\",\"content_index\":0,\"delta\":\"Hel\",\"sequence_number\":null}",
            JObj([type |-> JStr("response.output_text.delta", FALSE), output_index |-> JNum(0), item_id |-> JStr("msg_1", FALSE), content_index |-> JNum(0), delta |-> JStr("Hel", FALSE), sequence_number |-> JNull])),
    \* data: {"type":"response.output_text.annotation.added","output_index":0,"item_id":"msg_1","content_index":0,"sequence_number":5,"annotation_index":0,"annotation":{"type":"url_citation","url":"https://a.example","title":"A","start_index":0,"end_index":4294967301}}
    Payload("{\"type\":\"response.output_text.annotation.added\",\"output_index\":0,\"item_id\":\"msg_1\",\"content_index\":0,\"sequence_number\":5,\"annotation_index\":0,\"annotation\":{\"type\":\"url_citation\",\"url\":\"https://a.example\",\"title\":\"A\",\"start_index\":0,\"end_index\":4294967301}}",
            JObj([type |-> JStr("response.output_text.annotation.added", FALSE), output_index |-> JNum(0), item_id |-> JStr("msg_1", FALSE), content_index |-> JNum(0), sequence_number |-> JNum(5), annotation_index |-> JNum(0), annotation |-> JObj([type |-> JStr("url_citation", FALSE), url |-> JStr("https://a.example", FALSE), title |-> JStr("A", FALSE), start_index |-> JNum(0), end_index |-> JNumber(FALSE, FALSE, <<1, 0, 5>>)])])),
    \* data: {"type":"response.completed","response":{"id":"resp_1","status":"completed","usage":{"input_tokens":3,"output_tokens":5,"total_tokens":18446744073709551624}},"sequence_number":17}
    Payload("{\"type\":\"response.completed\",\"response\":{\"id\":\"resp_1\",\"status\":\"completed\",\"usage\":{\"input_tokens\":3,\"output_tokens\":5,\"total_tokens\":18446744073709551624}},\"sequence_number\":17}",
            JObj([type |-> JStr("response.completed", FALSE), response |-> JObj([id |-> JStr("resp_1", FALSE), status |-> JStr("completed", FALSE), usage |-> JObj([input_tokens |-> JNum(3), output_tokens |-> JNum(5), total_tokens |-> JNumber(FALSE, FALSE, <<1, 0, 0, 0, 8>>)])]), sequence_number |-> JNum(17)]))
    }

\* Records that are nearly the sentinel: another case, a space before or
\* after, a JSON string, a character more.
NearDoneRecords ==
    {Payload("[done]", NotJson), Payload(" [DONE]", NotJson), Payload("[DONE] ", NotJson),
     Payload("\"[DONE]\"", JStr("[DONE]", FALSE)), Payload("[DONE]x", NotJson)}

Range(seq) == {seq[i] : i \in 1..Len(seq)}

EventPayloads ==
    Range(EventRecords) \cup ItemRecords \cup {EscapedDeltaRecord} \cup UnknownKindRecords
        \cup {DoneRecord, UnknownTagRecord}

NumberPayloads ==
    InRangeRecords \cup OutOfRangeRecords
        \cup {EventRecords[5], EventRecords[6], EventRecords[18], DoneRecord}

\* Payloads with strings at every depth, with and without escapes, and payloads
\* that do not decode.
StringPayloads ==
    {EventRecords[1], EventRecords[5], EventRecords[8], EventRecords[9], EventRecords[11],
     EventRecords[18], EscapedDeltaRecord, GarbageRecord, UnknownTagRecord}
        \cup ItemRecords \cup Range(AbsentFieldRecords)

SentinelPayloads == NearDoneRecords \cup {DoneRecord, EventRecords[1], GarbageRecord}

\* What the transport delivers, line by line; the last two stand for a failed
\* read of the byte source, with the error it gave, and for bytes that are no text.
DataLine(p) == [k |-> "data", payload |-> p]
EventLine(name) == [k |-> "event_field", name |-> name]
IdLine(id) == [k |-> "id_field", id |-> id]
CommentLine == [k |-> "comment"]
BlankLine == [k |-> "blank"]
TransportFailureOf(e) == [k |-> "transport_error", e |-> e]
TransportFailure == TransportFailureOf("connection reset")
BadBytes == [k |-> "invalid_utf8", e |-> "invalid utf-8 sequence"]

Lines ==
    {DataLine(p) : p \in Payloads} \cup {CommentLine, BlankLine, TransportFailure, BadBytes}

RECURSIVE SeqsUpTo(_, _)
SeqsUpTo(S, n) ==
    IF n = 0 THEN {<<>>}
    ELSE LET shorter == SeqsUpTo(S, n - 1)
         IN  shorter \cup {Append(q, x) : q \in {r \in shorter : Len(r) = n - 1}, x \in S}

\* ----------------------------------------------------------- the framer

\* sseer::EventStream: the remaining input, the data lines, event name and id
\* of the record being assembled, and whether a record still open at the end
\* of the input is yielded.
EventStream(input, eof_dispatch) ==
    [input |-> input, data |-> <<>>, event |-> "message", id |-> "",
     eof_dispatch |-> eof_dispatch]

\* Several data lines of one record are joined by a line feed.
RECURSIVE JoinData(_)
JoinData(data) ==
    IF Len(data) = 1 THEN data[1]
    ELSE LET front == JoinData(SubSeq(data, 1, Len(data) - 1))
         IN  Payload(front.text \o "\n" \o data[Len(data)].text, NotJson)

NamedEvent(payload, name, id) ==
    [k |-> "event", data |-> payload, event |-> name, id |-> id]
Event(payload) == NamedEvent(payload, "message", "")
EventStreamError(kind, e) == [k |-> "error", kind |-> kind, e |-> e]
EndOfInput == [k |-> "end"]

\* The record assembled so far is yielded and a new one begun.
Dispatch(stream) ==
    [item |-> NamedEvent(JoinData(stream.data), stream.event, stream.id),
     stream |-> [stream EXCEPT !.data = <<>>, !.event = "message"]]

\* a framer that takes a comment line for a record of its own
RECURSIVE stream_poll_next_yields_comments(_)
stream_poll_next_yields_comments(stream) ==
    IF stream.input = <<>>
    THEN IF stream.data # <<>> /\ stream.eof_dispatch
         THEN Dispatch(stream)
         ELSE [item |-> EndOfInput,
               stream |-> [stream EXCEPT !.data = <<>>, !.event = "message"]]
    ELSE LET line == Head(stream.input)
             rest == [stream EXCEPT !.input = Tail(stream.input)]
         IN  CASE line.k = "data" ->
                     stream_poll_next_yields_comments(
                         [rest EXCEPT !.data = Append(@, line.payload)])
               [] line.k = "event_field" ->
                     stream_poll_next_yields_comments([rest EXCEPT !.event = line.name])
               [] line.k = "id_field" ->
                     stream_poll_next_yields_comments([rest EXCEPT !.id = line.id])
               [] line.k = "comment" ->
                     [item |-> Event(Payload(": OPENROUTER PROCESSING", NotJson)),
                      stream |-> rest]
               [] line.k = "blank" ->
                     IF rest.data = <<>>
                     THEN stream_poll_next_yields_comments(
                              [rest EXCEPT !.event = "message"])
                     ELSE Dispatch(rest)
               [] line.k = "transport_error" ->
                     [item |-> EventStreamError("Transport", line.e), stream |-> rest]
               [] line.k = "invalid_utf8" ->
                     [item |-> EventStreamError("Utf8Error", line.e), stream |-> rest]

\* One framer poll that is ready: the item it yields and the framer afterwards.
RECURSIVE stream_poll_next(_)
stream_poll_next(stream) ==
    IF stream.input = <<>>
    THEN IF stream.data # <<>> /\ stream.eof_dispatch
         THEN Dispatch(stream)
         ELSE [item |-> EndOfInput,
               stream |-> [stream EXCEPT !.data = <<>>, !.event = "message"]]
    ELSE LET line == Head(stream.input)
             rest == [stream EXCEPT !.input = Tail(stream.input)]
         IN  CASE line.k = "data" ->
                     stream_poll_next([rest EXCEPT !.data = Append(@, line.payload)])
               [] line.k = "event_field" ->
                     stream_poll_next([rest EXCEPT !.event = line.name])
               [] line.k = "id_field" ->
                     stream_poll_next([rest EXCEPT !.id = line.id])
               [] line.k = "comment" -> stream_poll_next(rest)
               [] line.k = "blank" ->
                     IF rest.data = <<>> THEN stream_poll_next([rest EXCEPT !.event = "message"])
                     ELSE Dispatch(rest)
               [] line.k = "transport_error" ->
                     [item |-> EventStreamError("Transport", line.e), stream |-> rest]
               [] line.k = "invalid_utf8" ->
                     [item |-> EventStreamError("Utf8Error", line.e), stream |-> rest]

\* ---------------------------------------------------------- the adapter

\* OAICompatResponsesStreamState
Active(stream) == [tag |-> "Active", stream |-> stream]
Terminated == [tag |-> "Terminated"]

\* Poll<Option<Result<StreamEvent, OAICompatResponsesStreamError<E>>>>
Pending == [poll |-> "Pending"]
ReadyNone == [poll |-> "Ready", item |-> "None"]
ReadyOk(event) == [poll |-> "Ready", item |-> "Ok", event |-> event]
ReadyErr(error) == [poll |-> "Ready", item |-> "Err", error |-> error]

\* a conversion that reports every framer error as a transport error
FromEventStreamError_all_transport(value) ==
    [variant |-> "Transport", e |-> value.e]

\* impl From<EventStreamError<E>> for OAICompatResponsesStreamError<E>
FromEventStreamError(value) ==
    CASE value.kind = "Transport" -> [variant |-> "Transport", e |-> value.e]
      [] value.kind = "Utf8Error" -> [variant |-> "Utf8Error", e |-> value.e]

\* impl From<serde_json::Error> for OAICompatResponsesStreamError<E>
FromSerdeError == [variant |-> "Deserialize"]

\* What the framer did in a poll of the adapter that did not get an item from it.
NotPolled == [k |-> "not_polled"]
FramerPending == [k |-> "pending"]

\* The outcome of one poll_next: the adapter's state afterwards, the value
\* returned, what the framer yielded, and the payloads given to the decoder.
Outcome(st, ret, polled, decoded) ==
    [state |-> st, ret |-> ret, polled |-> polled, decoded |-> decoded]

\* a Terminated adapter that reports an error instead of the end
poll_terminated_reports_error(st) ==
    Outcome(st, ReadyErr([variant |-> "Transport", e |-> "stream ended"]), NotPolled, <<>>)

\* Terminated => return Poll::Ready(None)
poll_terminated(st) == Outcome(st, ReadyNone, NotPolled, <<>>)

\* a suspended pull that has taken an item from the framer and dropped it
poll_pending_drops_item(st) ==
    Outcome(Active(stream_poll_next(st.stream).stream), Pending, FramerPending, <<>>)

\* futures::ready!: the framer is pending
poll_pending(st) == Outcome(st, Pending, FramerPending, <<>>)

\* a framer error that ends the stream
poll_error_terminates(p) ==
    Outcome(Terminated, ReadyErr(FromEventStreamError(p.item)), p.item, <<>>)

\* Some(Err(err)) => return Poll::Ready(Some(Err(err.into())))
poll_error(p) ==
    Outcome(Active(p.stream), ReadyErr(FromEventStreamError(p.item)), p.item, <<>>)

\* the end of the input taken for a framer that has nothing yet
poll_end_pends(p) == Outcome(Active(p.stream), Pending, p.item, <<>>)

\* the end of the input reported as an error
poll_end_reports_error(p) ==
    Outcome(Terminated, ReadyErr([variant |-> "Transport", e |-> "unexpected end"]),
            p.item, <<>>)

\* the end of the input reported without the state change
poll_end_stays_active(p) == Outcome(Active(p.stream), ReadyNone, p.item, <<>>)

\* None => state.set(Terminated); return Poll::Ready(None)
poll_end(p) == Outcome(Terminated, ReadyNone, p.item, <<>>)

\* the sentinel compared after trimming the payload
is_done_trimmed(data) == data.text \in {"[DONE]", " [DONE]", "[DONE] "}

\* the sentinel compared with the wrong literal
is_done_wrong_literal(data) == data.text = "DONE"

\* ev.data == "[DONE]"
is_done(data) == data.text = "[DONE]"

\* an adapter that keeps the framer when the sentinel ends the stream
poll_done_keeps_framer(p) ==
    Outcome([tag |-> "Terminated", stream |-> p.stream], ReadyNone, p.item, <<>>)

\* the sentinel reported as a record that does not decode
poll_done_reports_error(p) == Outcome(Terminated, ReadyErr(FromSerdeError), p.item, <<>>)

\* the sentinel reported without the state change
poll_done_stays_active(p) == Outcome(Active(p.stream), ReadyNone, p.item, <<>>)

\* if ev.data == "[DONE]" { state.set(Terminated); return Poll::Ready(None) }
poll_done(p) == Outcome(Terminated, ReadyNone, p.item, <<>>)

\* an adapter that keeps the payload of the record it decoded
poll_decode_keeps_buffer(p) ==
    LET borrowed == from_str(p.item.data)
    IN  Outcome([tag |-> "Active", stream |-> p.stream, buf |-> p.item.data],
                IF borrowed.ok
                THEN ReadyOk(convert_to_owned(borrowed.val, p.item.data))
                ELSE ReadyErr(FromSerdeError),
                p.item, <<p.item.data>>)

\* an adapter that drops the framer item after the record it decodes
poll_decode_skips_next(p) ==
    LET borrowed == from_str(p.item.data)
    IN  Outcome(Active(stream_poll_next(p.stream).stream),
                IF borrowed.ok
                THEN ReadyOk(convert_to_owned(borrowed.val, p.item.data))
                ELSE ReadyErr(FromSerdeError),
                p.item, <<p.item.data>>)

\* an adapter that remembers the sequence number of the last event and
\* reports an event that repeats it as an error
poll_decode_rejects_repeated_sequence_number(p) ==
    LET borrowed == from_str(p.item.data)
        number == IF borrowed.ok THEN borrowed.val.x.f.sequence_number.n ELSE <<>>
        repeated ==
            /\ borrowed.ok
            /\ "sequence_number" \in DOMAIN p.stream
            /\ p.stream.sequence_number = number
        stream == [n \in DOMAIN p.stream \cup {"sequence_number"} |->
                      IF n = "sequence_number" THEN number ELSE p.stream[n]]
    IN  Outcome(Active(stream),
                IF borrowed.ok /\ ~repeated
                THEN ReadyOk(convert_to_owned(borrowed.val, p.item.data))
                ELSE ReadyErr(FromSerdeError),
                p.item, <<p.item.data>>)

\* a decode failure that ends the stream
poll_decode_terminates_on_error(p) ==
    LET borrowed == from_str(p.item.data)
    IN  IF borrowed.ok
        THEN Outcome(Active(p.stream),
                     ReadyOk(convert_to_owned(borrowed.val, p.item.data)),
                     p.item, <<p.item.data>>)
        ELSE Outcome(Terminated, ReadyErr(FromSerdeError), p.item, <<p.item.data>>)

\* from_str(&ev.data).map(|borrowed| borrowed.convert_to_owned(&ev.data)).map_err(From::from)
poll_decode(p) ==
    LET borrowed == from_str(p.item.data)
    IN  Outcome(Active(p.stream),
                IF borrowed.ok
                THEN ReadyOk(convert_to_owned(borrowed.val, p.item.data))
                ELSE ReadyErr(FromSerdeError),
                p.item, <<p.item.data>>)

\* OAICompatResponsesStream::poll_next; `ready` is whether the framer has an item.
poll_next(st, ready) ==
    IF st.tag = "Terminated" THEN poll_terminated(st)
    ELSE IF ~ready THEN poll_pending(st)
    ELSE LET p == stream_poll_next(st.stream)
         IN  CASE p.item.k = "error" -> poll_error(p)
               [] p.item.k = "end" -> poll_end(p)
               [] p.item.k = "event" ->
                     IF is_done(p.item.data) THEN poll_done(p) ELSE poll_decode(p)

\* ------------------------------------------------- the request contracts

\* enum Role, #[serde(rename_all = "lowercase")], and enum Status,
\* #[serde(rename_all = "snake_case")]: variant |-> name on the wire
Role ==
    [User |-> "user", Assistant |-> "assistant", System |-> "system",
     Developer |-> "developer"]
Status ==
    [InProgress |-> "in_progress", Completed |-> "completed", Incomplete |-> "incomplete"]

\* What the accessors of a contract return.
CowStr(s) == [v |-> "Cow", s |-> s]
RoleOf(variant) == [v |-> "Role", variant |-> variant]
StatusOf(variant) == [v |-> "Status", variant |-> variant]
None == [v |-> "None"]
Some(x) == [v |-> "Some", x |-> x]

\* A field of a contract: `none` is whether it is declared with `= None`.
Required(name) == [name |-> name, none |-> FALSE]
Optional(name) == [name |-> name, none |-> TRUE]

\* define_contract!(pub trait $trait => $wrapper { [fields] const [entries] })
Contract(trait) ==
    CASE trait = "InputMessage" ->
            [wrapper |-> "Message",
             fields |-> <<Required("content"), Required("role")>>,
             const |-> <<>>]
      [] trait = "InputFunctionCall" ->
            [wrapper |-> "FunctionCall",
             fields |-> <<Required("arguments"), Required("call_id"), Required("name"),
                          Optional("id"), Optional("status")>>,
             const |-> << <<"type", "function_call">> >>]
      [] trait = "InputFunctionCallOutput" ->
            [wrapper |-> "FunctionCallOutput",
             fields |-> <<Required("call_id"), Required("output"), Optional("id"),
                          Optional("status")>>,
             const |-> << <<"type", "function_call_output">> >>]

\* The values of a caller's type that implements a contract: what each
\* accessor returns.
Implements(trait, get) == [trait |-> trait, get |-> get]

OptionalIds == {None, Some(CowStr("fc_1"))}
OptionalStatuses == {None} \cup {Some(StatusOf(s)) : s \in DOMAIN Status}

InputItems ==
    {Implements("InputMessage", [content |-> CowStr(c), role |-> RoleOf(r)]) :
        c \in {"test", ""}, r \in DOMAIN Role}
    \cup {Implements("InputFunctionCall",
                     [arguments |-> CowStr("{}"), call_id |-> CowStr("call_1"),
                      name |-> CowStr("lookup"), id |-> i, status |-> s]) :
             i \in OptionalIds, s \in OptionalStatuses}
    \cup {Implements("InputFunctionCallOutput",
                     [call_id |-> CowStr("call_1"), output |-> CowStr("42"),
                      id |-> i, status |-> s]) :
             i \in OptionalIds, s \in OptionalStatuses}

\* Where the caller's values are.
Addresses == {"0x7ffc10", "0x7ffc40"}

NoRef == [original_ptr |-> "null", wrapper_ptr |-> "null"]

\* a wrapper built around a copy of the value, at an address of its own
as_wrapper_ref_of_a_copy(self) ==
    [ty |-> Contract(self.ty).wrapper, ptr |-> "0x55aa00"]

\* fn as_wrapper_ref(&self) -> &$wrapper<Self>: the pointer cast to the wrapper
as_wrapper_ref(self) ==
    [ty |-> Contract(self.ty).wrapper, ptr |-> self.ptr]

\* impl Serialize for Cow<str>, Role, Status and Option
RECURSIVE serialize_value(_)
serialize_value(val) ==
    CASE val.v = "Cow" -> JStr(val.s, FALSE)
      [] val.v = "Role" -> JStr(Role[val.variant], FALSE)
      [] val.v = "Status" -> JStr(Status[val.variant], FALSE)
      [] val.v = "Some" -> serialize_value(val.x)
      [] val.v = "None" -> JNull

\* a field with default None that is written whatever its accessor returns
serialize_field_always(map, value, field) ==
    Append(map, <<field.name, serialize_value(value)>>)

\* define_contract!(@serialize_field ..): a field declared `= None` is
\* skipped when its accessor returns None
serialize_field(map, value, field) ==
    IF field.none
    THEN IF value.v = "Some"
         THEN Append(map, <<field.name, serialize_value(value.x)>>)
         ELSE map
    ELSE Append(map, <<field.name, serialize_value(value)>>)

RECURSIVE serialize_fields(_, _, _)
serialize_fields(map, inner, fields) ==
    IF fields = <<>> THEN map
    ELSE serialize_fields(serialize_field(map, inner.get[Head(fields).name], Head(fields)),
                          inner, Tail(fields))

\* impl<T: $trait> serde::Serialize for $wrapper<T>: the map, entry by entry
serialize(inner) ==
    LET contract == Contract(inner.trait)
        const == [i \in 1..Len(contract.const) |->
                     <<contract.const[i][1], JStr(contract.const[i][2], FALSE)>>]
    IN  serialize_fields(const, inner, contract.fields)

\* ------------------------------------------------------- the state machine

\* The number of "no more items" the consumer has been given.
NoneCount(items) == Cardinality({i \in 1..Len(items) : items[i] = ReadyNone})

NoPoll == [polled |-> NotPolled, ret |-> [poll |-> "none"]]

\* OAICompatResponsesStream::new(stream)
new(stream) == Active(stream)

Constructed(stream) ==
    /\ source = stream
    /\ state = new(stream)
    /\ out = <<>>
    /\ last = NoPoll
    /\ decoder_input = <<>>
    /\ request = <<>>
    /\ wrapper_ref = NoRef
    /\ written = <<>>

\* The adapter over every input of at most MaxLines lines.
Init ==
    \E input \in SeqsUpTo(Lines, MaxLines), eof_dispatch \in BOOLEAN :
        Constructed(EventStream(input, eof_dispatch))

\* An input made of whole records, comment lines and failures.
Blocks ==
    {<<DataLine(p), BlankLine>> : p \in Payloads}
        \cup {<<CommentLine>>, <<TransportFailure>>, <<BadBytes>>}

RECURSIVE Flatten(_)
Flatten(blocks) == IF blocks = <<>> THEN <<>> ELSE Head(blocks) \o Flatten(Tail(blocks))

\* The adapter over every input of at most MaxRecords such blocks.
InitRecords ==
    \E blocks \in SeqsUpTo(Blocks, MaxRecords), eof_dispatch \in BOOLEAN :
        Constructed(EventStream(Flatten(blocks), eof_dispatch))

\* Whole records, one of each payload.
Records(payloads) == {<<DataLine(p), BlankLine>> : p \in payloads}

\* Whole records that carry an event name and an id besides the payload.
NamedRecords(payloads) ==
    {<<EventLine("done"), IdLine("7"), DataLine(p), BlankLine>> : p \in payloads}

\* The adapter over every input of at most MaxEvents of the given records.
InitOver(records) ==
    \E blocks \in SeqsUpTo(records, MaxEvents) :
        Constructed(EventStream(Flatten(blocks), TRUE))

\* Inputs with every kind of event, item, part and annotation.
InitEvents == InitOver(Records(EventPayloads))

\* Inputs with numbers at and beyond the ends of their fields.
InitNumbers == InitOver(Records(NumberPayloads))

\* Inputs whose events carry strings.
InitStrings == InitOver(Records(StringPayloads))

\* Inputs with the sentinel, what is nearly the sentinel, and named records.
InitSentinel == InitOver(Records(SentinelPayloads) \cup NamedRecords(SentinelPayloads))

\* Records that decode and that do not, and failures of the byte source with
\* different error values.
FailureBlocks ==
    Records({CreatedRecord, GarbageRecord, DoneRecord})
        \cup {<<TransportFailure>>, <<TransportFailureOf("timed out")>>, <<BadBytes>>}

\* The adapter over every input of at most MaxRecords of these.
InitFailures ==
    \E blocks \in SeqsUpTo(FailureBlocks, MaxRecords) :
        Constructed(EventStream(Flatten(blocks), TRUE))

\* The consumer pulls once.
PollNext ==
    /\ NoneCount(out) <= MaxIdlePulls
    /\ \E ready \in BOOLEAN :
          LET r == poll_next(state, ready)
          IN  /\ state' = r.state
              /\ last' = [polled |-> r.polled, ret |-> r.ret]
              /\ out' = IF r.ret = Pending THEN out ELSE Append(out, r.ret)
              /\ decoder_input' = decoder_input \o r.decoded
    /\ UNCHANGED <<source, request, wrapper_ref, written>>

\* What a pull in which the framer has an item does to the adapter's state:
\* the state each arm of poll_next leaves (a record that is decoded leaves
\* the adapter Active over the framer, whatever the decoder returns).
FramerYields ==
    /\ state.tag = "Active"
    /\ LET p == stream_poll_next(state.stream)
       IN  state' = CASE p.item.k = "error" -> poll_error(p).state
                      [] p.item.k = "end" -> poll_end(p).state
                      [] p.item.k = "event" ->
                            IF is_done(p.item.data) THEN poll_done(p).state
                            ELSE Active(p.stream)

Next == PollNext

\* A request under construction: the caller's items, no adapter at work.
InitRequest ==
    /\ request \in [Addresses -> InputItems]
    /\ wrapper_ref = NoRef
    /\ written = <<>>
    /\ source = EventStream(<<>>, TRUE)
    /\ state = new(source)
    /\ out = <<>>
    /\ last = NoPoll
    /\ decoder_input = <<>>

\* let original_ptr = &item as *const _; let wrapper_ref = item.as_wrapper_ref();
\* let wrapper_ptr = wrapper_ref as *const _
AsWrapperRef ==
    /\ \E ptr \in DOMAIN request :
          LET ref == as_wrapper_ref([ty |-> request[ptr].trait, ptr |-> ptr])
          IN  wrapper_ref' = [original_ptr |-> ptr, wrapper_ptr |-> ref.ptr, ty |-> ref.ty]
    /\ written' = <<>>
    /\ UNCHANGED <<request, state, out, last, decoder_input, source>>

\* serde_json::to_string(wrapper_ref)
Serialize ==
    /\ wrapper_ref # NoRef
    /\ wrapper_ref.wrapper_ptr \in DOMAIN request
    /\ written' = serialize(request[wrapper_ref.wrapper_ptr])
    /\ UNCHANGED <<request, wrapper_ref, state, out, last, decoder_input, source>>

NextRequest == AsWrapperRef \/ Serialize

SpecRequest == InitRequest /\ [][NextRequest]_vars

Spec == Init /\ [][Next]_vars

SpecRecords == InitRecords /\ [][Next]_vars

SpecEvents == InitEvents /\ [][Next]_vars

SpecNumbers == InitNumbers /\ [][Next]_vars

SpecSentinel == InitSentinel /\ [][Next]_vars

SpecFailures == InitFailures /\ [][Next]_vars

SpecStrings == InitStrings /\ [][Next]_vars

\* The consumer keeps pulling and the framer is never pending forever: while
\* the adapter is Active, a pull in which the framer has an item is taken.
SpecLive == InitFailures /\ [][Next]_vars /\ WF_state(FramerYields)

\* ------------------------------------------------------------- properties

IsErr(r) == r.poll = "Ready" /\ r.item = "Err"
IsOk(r) == r.poll = "Ready" /\ r.item = "Ok"
FramerError(r) == IsErr(r) /\ r.error.variant \in {"Transport", "Utf8Error"}
DecodeError(r) == IsErr(r) /\ r.error.variant = "Deserialize"

\* C1: once the state is Terminated, every further pull returns "no more
\* items", without polling the framer or the decoder, and the state stays
\* Terminated.
TerminatedIsAbsorbing ==
    [][state.tag = "Terminated" =>
          /\ state' = Terminated
          /\ last' = [polled |-> NotPolled, ret |-> ReadyNone]
          /\ out' = Append(out, ReadyNone)
          /\ decoder_input' = decoder_input]_vars

\* C1 witness: two pulls of a Terminated adapter have returned.
PulledTwiceAfterTermination ==
    /\ state = Terminated
    /\ last = [polled |-> NotPolled, ret |-> ReadyNone]
    /\ NoneCount(out) >= 3

\* C2: a pull of an Active adapter in which the framer yields a record whose
\* payload is "[DONE]" sets the state to Terminated and returns "no more
\* items", and the payload is not given to the decoder.
SentinelTerminatesUndecoded ==
    [][(state.tag = "Active" /\ last'.polled.k = "event"
            /\ last'.polled.data.text = "[DONE]") =>
          /\ state' = Terminated
          /\ last'.ret = ReadyNone
          /\ decoder_input' = decoder_input]_vars

\* C2 witness: the sentinel arrived after an event and ended the stream.
SentinelSeen ==
    /\ last.polled = Event(DoneRecord)
    /\ state = Terminated
    /\ Len(out) = 2 /\ IsOk(out[1]) /\ out[2] = ReadyNone
    /\ Len(decoder_input) = 1

\* C3: a pull of an Active adapter in which the framer yields the end of the
\* input sets the state to Terminated and returns "no more items".
EndOfInputTerminates ==
    [][(state.tag = "Active" /\ last'.polled = EndOfInput) =>
          /\ state' = Terminated
          /\ last'.ret = ReadyNone]_vars

\* C3 witness: the end of the input was reached after an event.
EndOfInputSeen ==
    /\ last.polled = EndOfInput
    /\ state = Terminated
    /\ Len(out) = 2 /\ IsOk(out[1]) /\ out[2] = ReadyNone

\* C4: a pull in which the framer yields a transport or encoding error returns
\* that error, typed, and leaves the adapter Active over the same framer; the
\* pull after it polls the framer again.
FramerErrorKeepsActive ==
    [][/\ (state.tag = "Active" /\ last'.polled.k = "error") =>
             /\ last'.ret = ReadyErr([variant |-> last'.polled.kind, e |-> last'.polled.e])
             /\ state' = Active(stream_poll_next(state.stream).stream)
       /\ (last.polled.k = "error") => last'.polled # NotPolled]_vars

\* C4 witness: both kinds of framer error were returned, and a later pull
\* still got an event from the framer.
EventAfterFramerErrors ==
    /\ \E i \in 1..Len(out) : IsErr(out[i]) /\ out[i].error.variant = "Transport"
    /\ \E i \in 1..Len(out) : IsErr(out[i]) /\ out[i].error.variant = "Utf8Error"
    /\ last.polled.k = "event" /\ IsOk(last.ret)
    /\ state.tag = "Active"

\* C5: a pull in which the framer yields a record that is not the sentinel and
\* does not decode to an event returns a Deserialize error and leaves the
\* adapter Active over the same framer; the pull after it polls the framer again.
DecodeErrorKeepsActive ==
    [][/\ (state.tag = "Active" /\ last'.polled.k = "event"
              /\ last'.polled.data.text # "[DONE]"
              /\ ~from_str(last'.polled.data).ok) =>
             /\ last'.ret = ReadyErr([variant |-> "Deserialize"])
             /\ state' = Active(stream_poll_next(state.stream).stream)
       /\ DecodeError(last.ret) => last'.polled # NotPolled]_vars

\* C5 witness: a record that is no JSON and a record with an unknown tag were
\* both reported, and a later pull still got an event from the framer.
EventAfterDecodeErrors ==
    /\ Len(out) = 3 /\ DecodeError(out[1]) /\ DecodeError(out[2]) /\ IsOk(out[3])
    /\ decoder_input = <<GarbageRecord, UnknownTagRecord, CreatedRecord>>
    /\ state.tag = "Active"

\* C6: in a pull the state goes from Active to Terminated exactly when the
\* framer yielded the end of the input or a record whose payload is the
\* sentinel; no pull that returns an error changes the state, and no pull
\* leaves Terminated.
TerminatesOnlyOnEndOrSentinel ==
    [][/\ (state.tag = "Active" /\ state'.tag = "Terminated")
             <=> /\ state.tag = "Active"
                 /\ \/ last'.polled = EndOfInput
                    \/ last'.polled.k = "event" /\ last'.polled.data.text = "[DONE]"
       /\ (state.tag = "Active" /\ IsErr(last'.ret)) => state'.tag = "Active"
       /\ state.tag = "Terminated" => state'.tag = "Terminated"]_vars

\* C6 witness: errors of all three kinds were returned before the pull that
\* ended the stream.
TerminatedAfterErrors ==
    /\ state = Terminated
    /\ \E i \in 1..Len(out) : IsErr(out[i]) /\ out[i].error.variant = "Transport"
    /\ \E i \in 1..Len(out) : IsErr(out[i]) /\ out[i].error.variant = "Utf8Error"
    /\ \E i \in 1..Len(out) : DecodeError(out[i])

\* Everything the framer yields before the end of its input.
RECURSIVE FramerItems(_)
FramerItems(stream) ==
    LET p == stream_poll_next(stream)
    IN  IF p.item = EndOfInput THEN <<>> ELSE <<p.item>> \o FramerItems(p.stream)

\* What a consumer gets from an adapter by pulling it until "no more items".
RECURSIVE Drained(_)
Drained(st) ==
    LET r == poll_next(st, TRUE)
    IN  IF r.ret = ReadyNone THEN <<>> ELSE <<r.ret>> \o Drained(r.state)

IsItem(r) == r # ReadyNone
Items(results) == SelectSeq(results, IsItem)

IsSentinel(item) == item.k = "event" /\ item.data.text = "[DONE]"
Decodes(item) == item.k = "event" /\ from_str(item.data).ok

\* The input ends in a record whose payload is exactly "[DONE]".
EndsWithDone(stream) ==
    LET items == FramerItems(stream)
    IN  items # <<>> /\ items[Len(items)] = Event(DoneRecord)

\* The byte source delivers text only: no failed read, no invalid bytes.
TextOnly(stream) ==
    \A i \in 1..Len(stream.input) :
        stream.input[i].k \notin {"transport_error", "invalid_utf8"}

\* C7 as claimed: over an input that ends in a "[DONE]" record the consumer
\* gets successful events only, then "no more items" from the pull that ends
\* the stream and from every pull after it (read here, in the claim's favour,
\* over the inputs whose byte source never fails).
DoneStreamYieldsOnlyEvents ==
    (EndsWithDone(source) /\ TextOnly(source)) =>
        \E k \in 0..Len(out) :
            /\ \A i \in 1..k : IsOk(out[i])
            /\ \A i \in (k + 1)..Len(out) : out[i] = ReadyNone
            /\ state = Terminated <=> k < Len(out)

\* C7 as amended: over an input that ends in a "[DONE]" record the consumer
\* gets one item per framer item before the first sentinel - an event for a
\* record that decodes, a typed error for a framer error or for a record that
\* does not decode - then "no more items" from the pull that ends the stream
\* and from every pull after it; the end of the input is never reached.
DoneStreamYieldsItemsThenNone ==
    EndsWithDone(source) =>
        /\ last.polled # EndOfInput
        /\ \E k \in 0..Len(out) :
              /\ \A i \in 1..k :
                    LET item == FramerItems(source)[i]
                    IN  /\ ~IsSentinel(item)
                        /\ IF Decodes(item) THEN IsOk(out[i])
                           ELSE IF item.k = "error" THEN FramerError(out[i])
                           ELSE DecodeError(out[i])
              /\ \A i \in (k + 1)..Len(out) : out[i] = ReadyNone
              /\ state = Terminated <=> k < Len(out)

\* C7 witness: an event, then the sentinel, then a pull after the end.
DoneStreamDrained ==
    /\ EndsWithDone(source)
    /\ Len(out) = 3 /\ IsOk(out[1]) /\ out[2] = ReadyNone /\ out[3] = ReadyNone
    /\ state = Terminated

\* The input holds no "[DONE]" record.
NoDoneRecord(stream) ==
    \A i \in 1..Len(FramerItems(stream)) : ~IsSentinel(FramerItems(stream)[i])

\* C8: over an input with no "[DONE]" record, the pull that observes the end of
\* the input is the one after the last framer item, returns "no more items"
\* rather than an error and leaves the adapter Terminated; the adapter is not
\* Terminated before it.
CleanEndYieldsNone ==
    NoDoneRecord(source) =>
        /\ last.polled = EndOfInput =>
              /\ last.ret = ReadyNone
              /\ state = Terminated
              /\ Len(out) = Len(FramerItems(source)) + 1
              /\ out[Len(out)] = ReadyNone
              /\ \A i \in 1..(Len(out) - 1) : out[i] # ReadyNone
        /\ state = Terminated => Len(Items(out)) = Len(FramerItems(source))

\* C8 witness: an event and an error were delivered, then the end of the input.
CleanEndSeen ==
    /\ NoDoneRecord(source)
    /\ last.polled = EndOfInput
    /\ Len(out) = 3 /\ IsOk(out[1]) /\ IsErr(out[2])

\* The input is k records of response.created and then a "[DONE]" record.
EventsThenDone(k) ==
    LET items == FramerItems(source)
    IN  /\ Len(items) >= k + 1
        /\ \A i \in 1..k : items[i] = Event(CreatedRecord)
        /\ items[k + 1] = Event(DoneRecord)

\* The owned event of the response.created record.
CreatedEvent ==
    [v |-> "variant", enum |-> "StreamEvent", variant |-> "ResponseCreated",
     x |-> [v |-> "struct", name |-> "ResponseCreatedData",
            f |-> [response |->
                       [v |-> "struct", name |-> "ResponseMetadata",
                        f |-> [id |-> [v |-> "Str", s |-> "test", shared |-> FALSE],
                               status |-> [v |-> "unit", enum |-> "ResponseStatus",
                                           variant |-> "in_progress"],
                               usage |-> [v |-> "None"]]],
                   sequence_number |-> [v |-> "u64", n |-> <<0>>]]]]

\* C9: over an input of k response.created records and then a "[DONE]" record,
\* the first k pulls return the k ResponseCreated events and every pull after
\* them returns "no more items"; the adapter is Terminated from pull k + 1 on.
DrainYieldsExactlyTheEvents ==
    \A k \in 0..MaxRecords :
        EventsThenDone(k) =>
            /\ \A i \in 1..Len(out) :
                  IF i <= k THEN out[i] = ReadyOk(CreatedEvent) ELSE out[i] = ReadyNone
            /\ state = Terminated <=> Len(out) > k

\* C9 witness: two events were drained and the stream ended on the sentinel.
TwoEventsThenDoneDrained ==
    /\ EventsThenDone(2)
    /\ out = <<ReadyOk(CreatedEvent), ReadyOk(CreatedEvent), ReadyNone>>
    /\ last.polled = Event(DoneRecord)

IsNoComment(line) == line # CommentLine
StripComments(input) == SelectSeq(input, IsNoComment)

IsPrefix(p, q) == Len(p) <= Len(q) /\ SubSeq(q, 1, Len(p)) = p

\* C10: comment lines give the consumer nothing: the items delivered are those
\* of the adapter over the same input with the comment lines removed.
CommentLinesYieldNothing ==
    LET stripped == EventStream(StripComments(source.input), source.eof_dispatch)
        expected == Drained(new(stripped))
    IN  IF state = Terminated THEN Items(out) = expected
        ELSE IsPrefix(Items(out), expected)

\* C10 witness: comment lines before and inside the records of an event and
\* of the sentinel, and exactly the event was delivered.
CommentLinesSkipped ==
    /\ source.input \in
          {<<CommentLine, DataLine(CreatedRecord), BlankLine, DataLine(DoneRecord)>>,
           <<DataLine(CreatedRecord), CommentLine, BlankLine, DataLine(DoneRecord)>>,
           <<DataLine(CreatedRecord), BlankLine, CommentLine, DataLine(DoneRecord)>>}
    /\ out = <<ReadyOk(CreatedEvent), ReadyNone>>
    /\ state = Terminated

\* A value with the representation of its strings erased: what is left is the
\* variants, the text, the numbers, the statuses, the lists and the optional
\* values.
RECURSIVE Erase(_)
Erase(val) ==
    CASE val.v \in {"Cow", "Str"} -> [v |-> "string", s |-> val.s]
      [] val.v = "Vec" -> [v |-> "Vec", a |-> [i \in 1..Len(val.a) |-> Erase(val.a[i])]]
      [] val.v = "Some" -> [v |-> "Some", x |-> Erase(val.x)]
      [] val.v = "variant" -> [val EXCEPT !.x = Erase(val.x)]
      [] val.v = "struct" -> [val EXCEPT !.f = [n \in DOMAIN val.f |-> Erase(val.f[n])]]
      [] OTHER -> val

\* The value with every Cow a view into the payload (Cow::Borrowed).
RECURSIVE Borrowing(_)
Borrowing(val) ==
    CASE val.v = "Cow" -> [val EXCEPT !.cow = "Borrowed"]
      [] val.v = "Vec" -> [v |-> "Vec", a |-> [i \in 1..Len(val.a) |-> Borrowing(val.a[i])]]
      [] val.v = "Some" -> [v |-> "Some", x |-> Borrowing(val.x)]
      [] val.v = "variant" -> [val EXCEPT !.x = Borrowing(val.x)]
      [] val.v = "struct" -> [val EXCEPT !.f = [n \in DOMAIN val.f |-> Borrowing(val.f[n])]]
      [] OTHER -> val

\* The last pull decoded a record and returned the event.
EmittedEvent == last.polled.k = "event" /\ IsOk(last.ret)

\* C11: convert_to_owned preserves values: the owned event of a pull has the
\* variants, the text of every string, the numbers, the statuses, the lists
\* (length and order) and the optional values (present or absent) of the
\* decoded event, whether the strings of the decoded event are borrowed from
\* the payload or owned.
ConversionPreservesValues ==
    EmittedEvent =>
        LET buf == last.polled.data
            borrowed == from_str(buf).val
        IN  /\ Erase(last.ret.event) = Erase(borrowed)
            /\ Erase(convert_to_owned(Borrowing(borrowed), buf)) = Erase(borrowed)

\* C11 witness: the event of a content part with a list of two different
\* annotations was converted.
TwoAnnotationsConverted ==
    /\ EmittedEvent
    /\ last.polled.data = EventRecords[8]
    /\ LET a == last.ret.event.x.f.part.x.f.annotations.a
       IN  Len(a) = 2 /\ a[1].x.f.title.s = "A" /\ a[2].x.f.title.s = "B"

\* The strings of a value, in the order of their declaration.
RECURSIVE StringLeaves(_)
StringLeaves(val) ==
    CASE val.v \in {"Cow", "Str"} -> <<val>>
      [] val.v = "Vec" -> Flatten([i \in 1..Len(val.a) |-> StringLeaves(val.a[i])])
      [] val.v \in {"Some", "variant"} -> StringLeaves(val.x)
      [] val.v = "struct" ->
            LET fields == Fields(val.name)
            IN  Flatten([i \in 1..Len(fields) |-> StringLeaves(val.f[fields[i].name])])
      [] OTHER -> <<>>

\* No string of the JSON text is written with an escape: the text of every
\* string is a subslice of the payload as it stands.
RECURSIVE EscapeFree(_)
EscapeFree(json) ==
    CASE json.j = "string" -> ~json.esc
      [] json.j = "array" -> \A i \in 1..Len(json.a) : EscapeFree(json.a[i])
      [] json.j = "object" -> \A n \in DOMAIN json.f : EscapeFree(json.f[n])
      [] OTHER -> TRUE

\* C12 as claimed: zero copy: every string of an emitted event whose text is
\* a verbatim subslice of the payload (the response id of response.created and
\* response.completed included) is a handle on the payload's own allocation,
\* not a copy.
VerbatimStringsShareThePayload ==
    (EmittedEvent /\ EscapeFree(last.polled.data.json)) =>
        LET leaves == StringLeaves(last.ret.event)
        IN  \A i \in 1..Len(leaves) : leaves[i].shared

\* C13 as claimed: the decode step of a pull yields a borrowed view
\* (Cow::Borrowed) for a string written without escapes, so every string of an
\* escape-free payload reaches the converter in borrowed form.
DecodeBorrowsVerbatimStrings ==
    (last.polled.k = "event" /\ ~is_done(last.polled.data)
        /\ from_str(last.polled.data).ok /\ EscapeFree(last.polled.data.json)) =>
        LET leaves == StringLeaves(from_str(last.polled.data).val)
        IN  \A i \in 1..Len(leaves) : leaves[i].v = "Cow" => leaves[i].cow = "Borrowed"

\* C14: a response.output_text.delta record whose delta is written with an
\* escape decodes; the owned delta is the unescaped text, and its handle owns
\* the decoder's allocation: it is no slice of the payload.
EscapedDeltaIsCopied ==
    (last.polled.k = "event" /\ last.polled.data = EscapedDeltaRecord) =>
        /\ EscapedDeltaRecord.json.f.delta.esc
        /\ IsOk(last.ret)
        /\ last.ret.event.variant = "ResponseOutputTextDelta"
        /\ last.ret.event.x.f.delta =
              [v |-> "Str", s |-> EscapedDeltaRecord.json.f.delta.s, shared |-> FALSE]
        /\ last.ret.event.x.f.delta.s = "line1\nline2"

\* C14 witness: the record with the escaped delta was pulled and its event
\* returned.
EscapedDeltaEmitted ==
    /\ EmittedEvent
    /\ last.polled.data = EscapedDeltaRecord
    /\ last.ret.event.x.f.delta.s = "line1\nline2"
    /\ decoder_input[Len(decoder_input)] = EscapedDeltaRecord

\* The wire tags of a tagged enum.
Tags(enum) == {enum[i][1] : i \in 1..Len(enum)}

\* C15: a payload whose top-level type is none of the 18 tags, or whose
\* output-item kind, content-part kind, annotation kind, item status or
\* response status is outside its set, fails to decode: the pull returns a
\* Deserialize error and no event, and there is no variant it falls back to.
UnknownDiscriminatorFailsDecode ==
    last.polled.k = "event" =>
        LET json == last.polled.data.json
            unknown_tag ==
                /\ json.j = "object"
                /\ "type" \in DOMAIN json.f
                /\ json.f["type"].j = "string"
                /\ json.f["type"].s \notin Tags(StreamEvent)
        IN  (unknown_tag \/ last.polled.data \in UnknownKindRecords) =>
                /\ last.ret = ReadyErr(FromSerdeError)
                /\ out[Len(out)] = last.ret
                /\ ~from_str(last.polled.data).ok

\* C15 witness: a record with an unknown top-level tag and then one with an
\* unknown nested kind were pulled, and each pull returned a Deserialize error.
UnknownDiscriminatorsRejected ==
    /\ Len(out) = 2
    /\ Len(decoder_input) = 2
    /\ decoder_input[1] = UnknownTagRecord
    /\ decoder_input[2] \in UnknownKindRecords
    /\ DecodeError(out[1])
    /\ DecodeError(out[2])

\* C16: the 18 wire tags and the 18 variants of StreamEvent correspond one to
\* one: a record with one of the tags decodes to the variant declared for that
\* tag, two different tags never select the same variant, and the event
\* returned after the conversion to owned form is of that same variant.
TagSelectsItsVariant ==
    /\ Cardinality(Tags(StreamEvent)) = 18
    /\ Cardinality({VariantOf(StreamEvent, tag)[2] : tag \in Tags(StreamEvent)}) = 18
    /\ EmittedEvent =>
          LET tag == last.polled.data.json.f["type"].s
              hits == {i \in 1..Len(StreamEvent) : StreamEvent[i][1] = tag}
          IN  /\ Cardinality(hits) = 1
              /\ \A i \in hits :
                    /\ from_str(last.polled.data).val.variant = StreamEvent[i][2]
                    /\ last.ret.event.variant = StreamEvent[i][2]
                    /\ last.ret.event.x.name = StreamEvent[i][3]

\* C16 witness: the first and the last of the 18 tags were pulled, and the
\* events returned are ResponseCreated and ResponseCompleted.
FirstAndLastTagEmitted ==
    /\ Len(out) = 2
    /\ decoder_input = <<EventRecords[1], EventRecords[18]>>
    /\ IsOk(out[1]) /\ out[1].event.variant = "ResponseCreated"
    /\ IsOk(out[2]) /\ out[2].event.variant = "ResponseCompleted"

\* The numbers of a decoded value are those of the JSON text it was decoded
\* from, each within the width of its field: the indices 32 bits, the sequence
\* number and the token counts 64 bits.
RECURSIVE NumbersMatch(_, _)
NumbersMatch(val, json) ==
    CASE val.v \in {"u32", "u64"} ->
            /\ json.j = "number" /\ ~json.neg /\ ~json.frac
            /\ val.n = json.digits
            /\ Len(val.n) <= (IF val.v = "u32" THEN U32Digits ELSE U64Digits)
      [] val.v = "Vec" -> \A i \in 1..Len(val.a) : NumbersMatch(val.a[i], json.a[i])
      [] val.v \in {"Some", "variant"} -> NumbersMatch(val.x, json)
      [] val.v = "struct" ->
            \A n \in DOMAIN val.f :
                /\ n \in {"output_index", "content_index", "summary_index",
                          "annotation_index", "start_index", "end_index"} =>
                      val.f[n].v = "u32"
                /\ n \in {"sequence_number", "input_tokens", "output_tokens",
                          "total_tokens"} => val.f[n].v = "u64"
                /\ IF n \in DOMAIN json.f THEN NumbersMatch(val.f[n], json.f[n])
                   ELSE NumbersMatch(val.f[n], json)
      [] OTHER -> TRUE

\* C17: the numeric fields are unsigned integers of a fixed width, the indices
\* 32 bits, the sequence number and the token counts 64 bits: a record with a
\* number that is negative, above 2^32 - 1 resp. 2^64 - 1, or no integer at all
\* fails to decode, and the numbers of an emitted event are exactly the numbers
\* of the record, never wrapped or truncated.
NumbersDecodeInRangeOrFail ==
    (last.polled.k = "event" /\ ~is_done(last.polled.data)) =>
        /\ last.polled.data \in OutOfRangeRecords => last.ret = ReadyErr(FromSerdeError)
        /\ last.polled.data \in InRangeRecords => IsOk(last.ret)
        /\ IsOk(last.ret) => NumbersMatch(last.ret.event, last.polled.data.json)

\* C17 witness: a record with output_index = 2^32 was pulled and failed to
\* decode, then one with output_index = 2^32 - 1 was pulled and its event
\* carries that number.
RangeEndsPulled ==
    /\ Len(out) = 2
    /\ Len(decoder_input) = 2
    /\ decoder_input[1] \in OutOfRangeRecords
    /\ decoder_input[1].json.f["type"].s = "response.output_text.delta"
    /\ decoder_input[1].json.f.output_index = JNumber(FALSE, FALSE, <<1, 0, 0>>)
    /\ DecodeError(out[1])
    /\ IsOk(out[2])
    /\ out[2].event.x.f.output_index = [v |-> "u32", n |-> <<65535, 65535>>]

\* The number of results that are errors.
ErrCount(results) == Cardinality({i \in 1..Len(results) : IsErr(results[i])})

\* C18: every failed pull is reported by itself and by its kind: the i-th item
\* the consumer has is the i-th item of the framer - a transport error as
\* Transport with the same error value, invalid bytes as Utf8Error, a record
\* that does not decode as Deserialize, a record that decodes as its event - so
\* the consumer has as many errors as framer errors and undecodable records
\* were pulled: none is swallowed, merged with another or put off.
FailuresReportedOneByOne ==
    LET items == FramerItems(source)
        got == Items(out)
        failed == {i \in 1..Len(got) : items[i].k = "error" \/ ~Decodes(items[i])}
    IN  /\ Len(got) <= Len(items)
        /\ \A i \in 1..Len(got) :
              CASE items[i].k = "error" /\ items[i].kind = "Transport" ->
                      got[i] = ReadyErr([variant |-> "Transport", e |-> items[i].e])
                [] items[i].k = "error" /\ items[i].kind = "Utf8Error" ->
                      IsErr(got[i]) /\ got[i].error.variant = "Utf8Error"
                [] items[i].k = "event" ->
                      /\ ~IsSentinel(items[i])
                      /\ IF Decodes(items[i]) THEN IsOk(got[i])
                         ELSE got[i] = ReadyErr([variant |-> "Deserialize"])
        /\ ErrCount(out) = Cardinality(failed)

\* C18 witness: two transport errors with different values, invalid bytes and
\* a record that does not decode were pulled, and the consumer has the four
\* errors, each of its kind and in that order.
FourFailuresReported ==
    /\ Len(out) = 4
    /\ out[1] = ReadyErr([variant |-> "Transport", e |-> "connection reset"])
    /\ out[2] = ReadyErr([variant |-> "Transport", e |-> "timed out"])
    /\ FramerError(out[3]) /\ out[3].error.variant = "Utf8Error"
    /\ out[4] = ReadyErr([variant |-> "Deserialize"])
    /\ state.tag = "Active"

\* C19: the sentinel is the payload that equals "[DONE]" as a whole: a record
\* with any other payload - another case, a space before or after, the marker
\* as a JSON string, a character more - does not end the stream and is given to
\* the decoder, and a record whose payload is exactly "[DONE]" ends the stream
\* whatever its event name and id are.
SentinelIsExactMatch ==
    [][last'.polled.k = "event" =>
          IF last'.polled.data.text = "[DONE]"
          THEN /\ state' = Terminated
               /\ last'.ret = ReadyNone
               /\ decoder_input' = decoder_input
          ELSE /\ state'.tag = "Active"
               /\ last'.ret # ReadyNone
               /\ decoder_input' = Append(decoder_input, last'.polled.data)
               /\ last'.polled.data \in NearDoneRecords =>
                     last'.ret = ReadyErr(FromSerdeError)]_vars

\* C19 witness: a record that is nearly the sentinel was decoded and rejected,
\* and then a "[DONE]" record with an event name and an id ended the stream.
NamedSentinelAfterNearMiss ==
    /\ out = <<ReadyErr(FromSerdeError), ReadyNone>>
    /\ Len(decoder_input) = 1
    /\ decoder_input[1] \in NearDoneRecords
    /\ last.polled = NamedEvent(DoneRecord, "done", "7")
    /\ state = Terminated

\* C20: a pull returns Pending only when the framer is pending: a pull in
\* which the framer yields an item or the end, and a pull of a Terminated
\* adapter, never does; and a pull that returns Pending leaves the adapter as
\* it was - Active over the same framer, no record consumed, nothing given to
\* the decoder or to the consumer - so the next pull finds what this one found.
PendingOnlyFromFramer ==
    [][/\ last'.ret = Pending =>
             /\ state.tag = "Active"
             /\ last'.polled = FramerPending
             /\ state' = state
             /\ out' = out
             /\ decoder_input' = decoder_input
       /\ last'.polled = FramerPending => last'.ret = Pending
       /\ (state.tag = "Terminated" \/ last'.polled.k \in {"event", "error", "end"}) =>
             last'.ret # Pending]_vars

\* C20 witness: after an event was delivered a pull returned Pending, with
\* input still to come.
SuspendedBetweenItems ==
    /\ last = [polled |-> FramerPending, ret |-> Pending]
    /\ Len(out) = 1 /\ IsOk(out[1])
    /\ state.tag = "Active"
    /\ state.stream.input # <<>>
    /\ decoder_input = <<CreatedRecord>>

\* C21: the adapter keeps no record buffer from one pull to the next: after
\* every pull its state is Terminated, which holds nothing, or Active holding
\* the framer and nothing else - the framer as it was, or as the framer's own
\* poll left it - so the payload of one pull is gone before the next is pulled.
NoBufferRetained ==
    [][\/ state' = Terminated
       \/ /\ state.tag = "Active"
          /\ DOMAIN state' = {"tag", "stream"}
          /\ state' = Active(state'.stream)
          /\ state'.stream \in {state.stream, stream_poll_next(state.stream).stream}]_vars

\* C21 witness: two records were pulled one after the other, each decoded and
\* returned, and the adapter holds the framer only.
TwoRecordsPulledNoneKept ==
    /\ Len(decoder_input) = 2
    /\ Len(out) = 2 /\ IsOk(out[1]) /\ IsOk(out[2])
    /\ state = Active(state.stream)
    /\ DOMAIN state = {"tag", "stream"}
    /\ state.stream.data = <<>>

\* ---------------------------------------------------------------- C22

\* The item a wrapper reference was taken from, and its contract.
Wrapped == request[wrapper_ref.original_ptr]
Entry(inner, field) == <<field.name, serialize_value(inner.get[field.name])>>
ConstEntries(contract) ==
    [i \in 1..Len(contract.const) |->
        <<contract.const[i][1], JStr(contract.const[i][2], FALSE)>>]

Keys(map) == {map[i][1] : i \in 1..Len(map)}
Entries(map) == {map[i] : i \in 1..Len(map)}

RECURSIVE Verbatim(_, _)
Verbatim(s, json) ==
    CASE json.j = "string" -> ~json.esc /\ json.s = s
      [] json.j = "array" -> \E i \in 1..Len(json.a) : Verbatim(s, json.a[i])
      [] json.j = "object" -> \E n \in DOMAIN json.f : Verbatim(s, json.f[n])
      [] OTHER -> FALSE

\* The last pull handed a record that is not the sentinel to the decoder, and
\* it decoded.
DecodedRecord ==
    /\ last.polled.k = "event"
    /\ ~is_done(last.polled.data)
    /\ from_str(last.polled.data).ok

SequenceNumberOf(data) == data.json.f.sequence_number.digits

\* C25: sequence numbers are not enforced: whatever the sequence numbers of
\* the records before it, equal, decreasing or increasing, a record that
\* decodes is emitted as its event, with the sequence number of its payload
\* and the values of the decoded event, and not as an error: the result is
\* the one the record has when it is the only record of the stream.
SequenceNumbersNotEnforced ==
    \A i \in 1..Len(decoder_input) :
        LET data == decoder_input[i]
        IN  from_str(data).ok =>
               /\ i <= Len(out)
               /\ IsOk(out[i])
               /\ out[i].event.x.f.sequence_number.n = SequenceNumberOf(data)
               /\ Erase(out[i].event) = Erase(from_str(data).val)
               /\ out[i] = poll_decode([item |-> Event(data), stream |-> source]).ret

\* C25 witness: an event with sequence number 10 and then one with sequence
\* number 4 were emitted, each with its number.
DecreasingSequenceNumbersEmitted ==
    /\ decoder_input = <<EventRecords[11], EventRecords[5]>>
    /\ Len(out) >= 2
    /\ IsOk(out[1]) /\ out[1].event.x.f.sequence_number.n = Digits(10)
    /\ IsOk(out[2]) /\ out[2].event.x.f.sequence_number.n = Digits(4)

\* ---------------------------------------------------------------- C27

\* C27: until termination, each pull that completes consumes exactly one
\* item of the framer, the next one, and adds exactly one result, the result
\* of that item: the n-th result the consumer has is for the n-th item of the
\* framer, so none is skipped, repeated or reordered, and a record that
\* decodes is delivered as its event whatever came before it. A pull that
\* does not complete consumes nothing.
EachPullConsumesOneItem ==
    [][state.tag = "Active" =>
          LET items == FramerItems(source)
              n == Len(out)
              next == stream_poll_next(state.stream)
          IN  IF last'.ret = Pending
              THEN state' = state /\ out' = out
              ELSE /\ out' = Append(out, last'.ret)
                   /\ last'.polled = next.item
                   /\ IF n < Len(items)
                      THEN /\ last'.polled = items[n + 1]
                           /\ IsSentinel(items[n + 1]) \/ state' = Active(next.stream)
                           /\ IsSentinel(items[n + 1]) \/ last'.ret # ReadyNone
                           /\ Decodes(items[n + 1]) => IsOk(last'.ret)
                           /\ items[n + 1].k = "error" => FramerError(last'.ret)
                      ELSE last'.polled = EndOfInput]_vars

\* C27 witness: a record that decodes was delivered as the third item, after
\* a framer error and a record that does not decode, each delivered in its
\* place.
EventDeliveredAfterBothErrors ==
    /\ Len(out) = 3
    /\ FramerError(out[1])
    /\ DecodeError(out[2])
    /\ IsOk(out[3])
    /\ Len(FramerItems(source)) >= 3
    /\ FramerItems(source)[3] = Event(CreatedRecord)
    /\ state.tag = "Active"

\* ---------------------------------------------------------------- C28

\* Where the "[DONE]" records are among the items of the framer.
Sentinels(items) == {i \in 1..Len(items) : IsSentinel(items[i])}

\* C28: a Terminated adapter holds no framer, and what follows the first
\* "[DONE]" record in the input is never consumed: the consumer has at most
\* the items before it, the decoder was given at most the records before it,
\* the pull that took the sentinel is the last that polled the framer, and
\* every result after it is "no more items".
NothingConsumedAfterFirstDone ==
    LET items == FramerItems(source)
    IN  /\ state.tag = "Terminated" => state = Terminated
        /\ Sentinels(items) # {} =>
              LET k == CHOOSE i \in Sentinels(items) : \A j \in Sentinels(items) : i <= j
                  before == SubSeq(items, 1, k - 1)
              IN  /\ Len(Items(out)) <= k - 1
                  /\ Len(decoder_input) <= k - 1
                  /\ \A i \in 1..Len(decoder_input) :
                        \E j \in 1..(k - 1) : before[j] = Event(decoder_input[i])
                  /\ \A i \in 1..Len(out) : i >= k <=> out[i] = ReadyNone
                  /\ Len(out) = k => (last.polled = items[k] /\ state = Terminated)
                  /\ Len(out) > k => (last.polled = NotPolled /\ state = Terminated)

\* C28 witness: the input has an event, the sentinel, a transport failure and
\* a second sentinel; the consumer got the event and then "no more items"
\* twice, and nothing of what follows the first sentinel.
TailAfterDoneNeverConsumed ==
    /\ Len(FramerItems(source)) = 4
    /\ FramerItems(source)[1] = Event(CreatedRecord)
    /\ FramerItems(source)[2] = Event(DoneRecord)
    /\ FramerItems(source)[3].k = "error"
    /\ FramerItems(source)[4] = Event(DoneRecord)
    /\ Len(out) = 3 /\ IsOk(out[1]) /\ out[2] = ReadyNone /\ out[3] = ReadyNone
    /\ state = Terminated

\* ---------------------------------------------------------------- C29

\* C29: over an input of n framer items and then the end of the input, with a
\* framer that is never pending forever and a consumer that keeps pulling,
\* the adapter is eventually Terminated, and it is Active for at most n
\* completed pulls, so that the pull that terminates it is at most the
\* (n + 1)-th; and it is Terminated only when every item before a sentinel, or
\* every item of the input, has been delivered: errors and records that are
\* no sentinel never terminate it.
TerminatesWithinItemsPlusOne ==
    /\ <>(state = Terminated)
    /\ [](state.tag = "Active" => Len(out) <= Len(FramerItems(source)))
    /\ [](state = Terminated =>
             LET items == FramerItems(source)
                 m == Len(Items(out))
             IN  /\ m <= Len(items)
                 /\ \A i \in 1..m : ~IsSentinel(items[i])
                 /\ m = Len(items) \/ IsSentinel(items[m + 1]))

\* C29 witness: an input of four items, errors and records and no sentinel,
\* was pulled to its end: the adapter stayed Active through the four and was
\* Terminated by the fifth pull.
TerminatedByFifthPull ==
    /\ Len(FramerItems(source)) = 4
    /\ NoDoneRecord(source)
    /\ \E i \in 1..4 : FramerItems(source)[i].k = "error"
    /\ Len(out) = 5
    /\ \A i \in 1..4 : out[i] # ReadyNone
    /\ out[5] = ReadyNone
    /\ last.polled = EndOfInput
    /\ state = Terminated

\* ---------------------------------------------------------------- C30

Empty == [v |-> "Vec", a |-> <<>>]
NoValue == [v |-> "None"]

\* The last pull took the k-th of the records that leave a field out.
PulledAbsent(k) == last.polled.k = "event" /\ last.polled.data = AbsentFieldRecords[k]

\* C30: a list or an optional value that the payload leaves out does not
\* make decoding fail: a message without content, a reasoning item without
\* summary and a text part without annotations decode to the empty list, and
\* an absent usage, cost or encrypted_content to no value; the event the pull
\* returns carries the same empty list, the same absence.
AbsentFieldsDecodeToDefaults ==
    (\E k \in 1..Len(AbsentFieldRecords) : PulledAbsent(k)) =>
        LET json == last.polled.data.json.f
            decoded == from_str(last.polled.data)
            event == last.ret.event.x.f
        IN  /\ decoded.ok
            /\ IsOk(last.ret)
            /\ out[Len(out)] = last.ret
            /\ PulledAbsent(1) =>
                  /\ "content" \notin DOMAIN json.item.f
                  /\ decoded.val.x.f.item.x.f.content = Empty
                  /\ event.item.x.f.content = Empty
            /\ PulledAbsent(2) =>
                  /\ DOMAIN json.item.f \cap {"summary", "encrypted_content"} = {}
                  /\ decoded.val.x.f.item.x.f.summary = Empty
                  /\ decoded.val.x.f.item.x.f.encrypted_content = NoValue
                  /\ event.item.x.f.summary = Empty
                  /\ event.item.x.f.encrypted_content = NoValue
            /\ PulledAbsent(3) =>
                  /\ "annotations" \notin DOMAIN json.part.f
                  /\ decoded.val.x.f.part.x.f.annotations = Empty
                  /\ event.part.x.f.annotations = Empty
            /\ PulledAbsent(4) =>
                  /\ "cost" \notin DOMAIN json.response.f.usage.f
                  /\ decoded.val.x.f.response.f.usage.x.f.cost = NoValue
                  /\ event.response.f.usage.x.f.cost = NoValue
            /\ PulledAbsent(5) =>
                  /\ "usage" \notin DOMAIN json.response.f
                  /\ decoded.val.x.f.response.f.usage = NoValue
                  /\ event.response.f.usage = NoValue

\* C30 witness: the reasoning item with neither summary nor
\* encrypted_content was emitted after the message without content.
ItemsWithoutListsEmitted ==
    /\ decoder_input = <<AbsentFieldRecords[1], AbsentFieldRecords[2]>>
    /\ Len(out) = 2 /\ IsOk(out[1]) /\ IsOk(out[2])
    /\ out[1].event.x.f.item.x.f.content = Empty
    /\ out[2].event.x.f.item.x.f.summary = Empty
    /\ out[2].event.x.f.item.x.f.encrypted_content = NoValue

====
